---- MODULE Spec2Model ----
(***************************************************************************)
(* Model of the authentication / token-renewal core of revolut-py:         *)
(*   revolut/__init__.py        Client (session transport), Revolut        *)
(*   token_renewal/__init__.py  get_token (login protocol), renew_token    *)
(*                                                                         *)
(* Python values are modelled as follows.  A str is a sequence of          *)
(* one-character strings where its content is computed on (tokens, user    *)
(* ids, 2FA codes) and a TLA+ string where it is only compared.  A dict is *)
(* a function whose DOMAIN is the set of keys ("k in d" is k \in DOMAIN d).*)
(* None in a str-valued slot is the sentinel None.  Times are integers in  *)
(* milliseconds (a Python float of seconds with three decimals).           *)
(* An exception is a record [type, why, url, status]: its class, the raise *)
(* site, and the URL and status code its message carries.                  *)
(*                                                                         *)
(* retry(exc=Exception, tries, callback_by_exception) is the decorator of  *)
(* the retry_decorator package: it calls f up to tries-1 times inside      *)
(* try/except exc, running the callback registered for the exception's     *)
(* type before the next attempt, and then calls f one last time outside    *)
(* the try.  It is modelled at the two places that apply it.               *)
(***************************************************************************)
EXTENDS Integers, Sequences, FiniteSets, TLC

\* ------------------------------------------------------------------------
\* Program constants
\* ------------------------------------------------------------------------
\* variants with one attempt more, resp. one poll less, than the code has
CallTries_OneMore == 2 + 1
RenewTries_OneMore == 2 + 1
AppPollCap_OneLess == 50 - 1
AppPollCap_OneMore == 50 + 1
BiometricPollCap_OneMore == 50 + 1

\* retry(tries=2, ...) in Client._make_call_retried
CallTries == 2
\* @retry(ConnectionError, tries=2) on renew_token
RenewTries == 2
\* get_token_step2: "if count > 50"
AppPollCap == 50
\* signin_biometric: "if count > 50"
BiometricPollCap == 50
\* Revolut.__init__: "... - time.time() <= 5", in ms
SafetyMarginMs == 5000
\* the vendor code of a 422 answer that means: consent still pending
PendingCode == 9035

\* ------------------------------------------------------------------------
\* Bounds of the model
\* ------------------------------------------------------------------------
MaxOps == 1
\* 422/pending (204) answers an unscripted server gives to one poll loop
MaxFreePending == 2
\* the observer of POSTs to /signin counts up to this
SigninCounted == 2

\* expiry times (ms) of a cached token; the clock reads 0 when Revolut.__init__ runs
ExpiryDates == {3000, 5000, 5001}
\* tokenExpiryDate values (ms) the server sends
ServerExpiryDates == {3000, 5001}
\* how many 422/pending answers a scripted server gives before its 200
ScriptLengths == {0, 1, AppPollCap, AppPollCap + 1}
NoScript == 0 - 1
\* the arguments the functions are applied to on their own: strings over
\* StrChars up to MaxStrLen long, integers next to the powers of ten up to
\* MaxDigits digits, pairs of strings over PairChars up to MaxIdLen long
MaxStrLen == 7
MaxDigits == 7
MaxIdLen == 3
StrChars == {"0", "7", "x"}
PairChars == {"a", ":"}
BioScriptLengths == {1, BiometricPollCap, BiometricPollCap + 1}

None == "None"
NoToken == <<>>
Phone == "+336"
Password == "1234"

_SUPPORTED_CHANNELS == {"EMAIL", "SMS", "APP"}
_DEFAULT_CHANNEL == "EMAIL"
_3FAT == "thirdFactorAuthAccessToken"

_URL_GET_TOKEN_STEP1 == "/signin"
_URL_GET_TOKEN_STEP2 == "/signin/confirm"
_URL_GET_TOKEN_STEP2_APP == "/token"
_URL_SELFIE == "/biometric-signin/selfie"
_URL_3FA_CONFIRM_TMPLT == "/biometric-signin/confirm/{}"
_URL_GET_ACCOUNTS == "/user/current/wallet"

\* ------------------------------------------------------------------------
\* dict helpers
\* ------------------------------------------------------------------------
EmptyDict == [k \in {} |-> None]

\* dict.update(other)
DictUpdate(d, other) ==
    [k \in DOMAIN d \cup DOMAIN other |-> IF k \in DOMAIN other THEN other[k] ELSE d[k]]

\* d[k] = v
DictSet(d, k, v) == DictUpdate(d, k :> v)

\* ------------------------------------------------------------------------
\* token_encode: base64 of "f:s" in ASCII
\* ------------------------------------------------------------------------
Ascii ==
    ("a" :> 97) @@ ("b" :> 98) @@ ("o" :> 111) @@ ("t" :> 116) @@ ("u" :> 117)
    @@ ("x" :> 120) @@ (":" :> 58)

B64Alphabet ==
    << "A","B","C","D","E","F","G","H","I","J","K","L","M","N","O","P",
       "Q","R","S","T","U","V","W","X","Y","Z","a","b","c","d","e","f",
       "g","h","i","j","k","l","m","n","o","p","q","r","s","t","u","v",
       "w","x","y","z","0","1","2","3","4","5","6","7","8","9","+","/" >>

B64Char(n) == B64Alphabet[n + 1]

RECURSIVE b64encode(_)
b64encode(bytes) ==
    IF Len(bytes) = 0 THEN <<>>
    ELSE IF Len(bytes) = 1 THEN
        << B64Char(bytes[1] \div 4), B64Char((bytes[1] % 4) * 16), "=", "=" >>
    ELSE IF Len(bytes) = 2 THEN
        << B64Char(bytes[1] \div 4),
           B64Char((bytes[1] % 4) * 16 + bytes[2] \div 16),
           B64Char((bytes[2] % 16) * 4), "=" >>
    ELSE
        << B64Char(bytes[1] \div 4),
           B64Char((bytes[1] % 4) * 16 + bytes[2] \div 16),
           B64Char((bytes[2] % 16) * 4 + bytes[3] \div 64),
           B64Char(bytes[3] % 64) >>
        \o b64encode(SubSeq(bytes, 4, Len(bytes)))

\* token_encode without the separator
token_encode_NoSep(f, s) ==
    LET text == f \o s
        bytes == [i \in 1..Len(text) |-> Ascii[text[i]]]
    IN  b64encode(bytes)

token_encode(f, s) ==
    LET text == f \o <<":">> \o s
        bytes == [i \in 1..Len(text) |-> Ascii[text[i]]]
    IN  b64encode(bytes)

\* ------------------------------------------------------------------------
\* is_valid_2fa_code
\* ------------------------------------------------------------------------
Digits == {"0", "1", "2", "3", "4", "5", "6", "7", "8", "9"}

\* is_valid_2fa_code accepting every string
is_valid_2fa_code_Always(code) == TRUE

\* is_valid_2fa_code testing the length only
is_valid_2fa_code_LenOnly(code) == Len(code) = 6

\* the branch of type(code) == str
is_valid_2fa_code(code) ==
    Len(code) = 6 /\ \A i \in 1..Len(code) : code[i] \in Digits

\* str(n) of an int n
DigitChar(d) == << "0", "1", "2", "3", "4", "5", "6", "7", "8", "9" >>[d + 1]
RECURSIVE NatStr(_)
NatStr(n) == IF n < 10 THEN << DigitChar(n) >> ELSE NatStr(n \div 10) \o << DigitChar(n % 10) >>
str(n) == IF n < 0 THEN << "-" >> \o NatStr(0 - n) ELSE NatStr(n)

\* the branch of type(code) == int
is_valid_2fa_code_int(code) == Len(str(code)) = 6

\* is_valid_2fa_code of a value x of type x.type
is_valid_2fa_code_any(x) ==
    IF x.type = "str" THEN is_valid_2fa_code(x.val)
    ELSE IF x.type = "int" THEN is_valid_2fa_code_int(x.val)
    ELSE FALSE

\* ------------------------------------------------------------------------
\* Exceptions
\* ------------------------------------------------------------------------
Exc(type, why, url, status) == [type |-> type, why |-> why, url |-> url, status |-> status]
\* the RuntimeError of an exhausted poll loop (APP step 2, biometric step 3)
Timeout == Exc("RuntimeError", "timeout", "", 0)
\* the RuntimeError of validate_token_response
MissingKey == Exc("RuntimeError", "missing-key", "", 0)
\* the ConnectionError of an unexpected code in a 422 answer of the APP poll
UnexpectedCode == Exc("ConnectionError", "code", _URL_GET_TOKEN_STEP2_APP, 422)
NoExc == Exc("none", "", "", 0)
Ok == Exc("ok", "", "", 0)

\* `except Exception` (the decorator's default exc) catches every type;
\* `except ConnectionError` catches the builtin ConnectionError only:
\* requests.exceptions.ConnectionError derives from IOError, not from it.
ExceptionClass ==
    {"TokenExpiredException", "ConnectionError", "RequestException", "RuntimeError",
     "ValueError", "KeyError", "IOError"}
ConnectionErrorClass == {"ConnectionError"}

\* ------------------------------------------------------------------------
\* HTTP responses: status 0 stands for session.get/post raising (no response
\* arrived), json for "the body parses as JSON", body for the parsed dict.
\* ------------------------------------------------------------------------
Resp(status, json, body) == [status |-> status, json |-> json, body |-> body]
NetFail == Resp(0, FALSE, EmptyDict)

UserIds == {<<"u">>}
AccessTokens == {<<"a">>}
ThirdTokens == {<<"x">>}
OldToken == token_encode(<<"u">>, <<"o">>)
ArgToken == token_encode(<<"u">>, <<"t">>)

\* the final login payloads the server may send: with or without the
\* third-factor token, and with at most one of the required fields missing
PayloadKeys == {"user", "accessToken", "tokenExpiryDate", _3FAT}
RequiredKeys == {"user", "accessToken", "tokenExpiryDate"}
Users == {EmptyDict} \cup {("id" :> u) : u \in UserIds}
MkPayload(K, u, a, e, x) ==
    [k \in K |-> CASE k = "user" -> u
                   [] k = "accessToken" -> a
                   [] k = "tokenExpiryDate" -> e
                   [] OTHER -> x]
Payloads ==
    UNION {{MkPayload(K, u, a, e, x) :
                u \in {v \in Users : RequiredKeys \subseteq K \/ v # EmptyDict},
                a \in AccessTokens, e \in ServerExpiryDates, x \in ThirdTokens} :
        K \in {S \in SUBSET PayloadKeys : Cardinality(RequiredKeys \ S) <= 1}}

BusinessResponses ==
    {Resp(200, TRUE, EmptyDict), Resp(401, TRUE, EmptyDict), Resp(401, FALSE, EmptyDict),
     Resp(500, TRUE, EmptyDict), NetFail}
\* on the login endpoints 401 stands for every status the call does not expect
Step1Responses ==
    {Resp(200, TRUE, "tokenId" :> "tid"), Resp(401, TRUE, EmptyDict), NetFail}
ConfirmResponses ==
    {Resp(204, FALSE, EmptyDict), Resp(401, TRUE, EmptyDict), NetFail}
        \cup {Resp(200, TRUE, p) : p \in Payloads}
Pending == Resp(422, TRUE, "code" :> PendingCode)
PollResponses ==
    {Pending, Resp(422, TRUE, "code" :> 9999), Resp(422, TRUE, EmptyDict),
     Resp(401, TRUE, EmptyDict), NetFail}
        \cup {Resp(200, TRUE, p) : p \in Payloads}
SelfieResponses ==
    {Resp(200, TRUE, "id" :> "bio"), Resp(200, TRUE, EmptyDict), Resp(401, TRUE, EmptyDict), NetFail}
BioPollResponses ==
    {Resp(204, FALSE, EmptyDict), Resp(401, TRUE, EmptyDict), NetFail}
        \cup {Resp(200, TRUE, p) : p \in {q \in Payloads : _3FAT \notin DOMAIN q}}

\* what a 2FA provider or a prompt may hand over (after replace("-", "").strip())
CodeInputs ==
    {<<"1", "2", "3", "4", "5", "6">>, <<"1", "2", "3">>, <<"1", "2", "3", "4", "5", "x">>}

\* ------------------------------------------------------------------------
\* Client (the session transport)
\* ------------------------------------------------------------------------
TokenTrue == <<"True">>

\* Client.__init__ setting auth whatever the token
Client_AlwaysAuth(token, renew_token) ==
    [token |-> token, auth |-> TRUE, renew_token |-> renew_token]

\* Client.__init__
Client(token, renew_token) ==
    [token |-> token, auth |-> token # NoToken, renew_token |-> renew_token]

\* _configure_session taking the bearer token from conf in every mode
_configure_session_ConfToken(c, cnf) ==
    LET base == ("Content-Type" :> <<"json">>) @@ ("X-Device-Id" :> <<cnf["device"]>>)
    IN  IF c.auth THEN ("x-api-authorization" :> cnf["token"]) @@ base ELSE base

\* Client._configure_session: the headers of the session
\* _configure_session sending the token the Client was built with
_configure_session_OwnToken(c, cnf) ==
    LET base == ("Content-Type" :> <<"json">>) @@ ("X-Device-Id" :> <<cnf["device"]>>)
    IN  IF c.auth THEN ("x-api-authorization" :> c.token) @@ base ELSE base

_configure_session(c, cnf) ==
    LET base == ("Content-Type" :> <<"json">>) @@ ("X-Device-Id" :> <<cnf["device"]>>)
    IN  IF c.auth
        THEN ("x-api-authorization" :> (IF c.renew_token THEN cnf["token"] ELSE c.token)) @@ base
        ELSE base

\* the request Client._make_call sends: session configured, Content-Type
\* dropped when the call is multipart
Request(c, cnf, url, files) ==
    LET h == _configure_session(c, cnf)
    IN  [url |-> url, files |-> files,
         headers |-> IF files /\ "Content-Type" \in DOMAIN h
                     THEN [k \in DOMAIN h \ {"Content-Type"} |-> h[k]]
                     ELSE h]
NoRequest == [url |-> "", files |-> FALSE, headers |-> EmptyDict]

\* _configure_session keeping the headers of a session that has some
AssignHeaders_Once(prev, new) == IF prev = EmptyDict THEN new ELSE prev

\* Client._configure_session line 381: session.headers is assigned a new
\* dict, the headers the session had (prev) are dropped
AssignHeaders(prev, new) == new

\* Client._make_call lines 425-428 on a Client whose session has the
\* headers prev: the headers the request is sent with
MakeCallHeaders(prev, c, cnf, files) ==
    LET h == AssignHeaders(prev, _configure_session(c, cnf))
    IN  IF files /\ "Content-Type" \in DOMAIN h
        THEN [k \in DOMAIN h \ {"Content-Type"} |-> h[k]]
        ELSE h

\* Client._verif_resp_code (an int code is the one-element set)
_verif_resp_code(ret, codes) == ret.status \in codes

\* Client._token_expired
\* _token_expired that does not look at the body
_token_expired_Any401(ret) == ret.status = 401

_token_expired(ret) == IF ~ret.json THEN FALSE ELSE ret.status = 401

\* Client._make_call after the request was sent: Ok when the response is
\* returned, else the exception raised
_make_call(c, url, expected_status_code, ret) ==
    IF ret.status = 0 THEN Exc("RequestException", "transport", url, 0)
    ELSE IF _verif_resp_code(ret, expected_status_code) THEN Ok
    ELSE IF c.renew_token /\ _token_expired(ret) THEN Exc("TokenExpiredException", "expired", url, ret.status)
    ELSE Exc("ConnectionError", "status", url, ret.status)

\* the decorator's loop: an exception raised by the wrapped call is caught
\* while mtries > 1 and its type is in the decorated class; the last call
\* is made outside the try
retry_catches(mtries, e, excClass) == mtries > 1 /\ e.type \in excClass

\* a wrapper without callback_by_exception
HasRenewCallback_None(e) == FALSE

\* Client._make_call_retried: callback_by_exception of the wrapper
HasRenewCallback(e) == e.type = "TokenExpiredException"

\* ------------------------------------------------------------------------
\* State
\* ------------------------------------------------------------------------
VARIABLES
    commonFile,     \* the common config file on disk (a dict)
    accFile,        \* the per-account config file on disk (a dict)
    conf,           \* the conf dict shared by Revolut, Client and renew_token
    now,            \* time.time(), in ms
    ops,            \* operations started on the constructed Revolut client
    pc,             \* where the single thread of control stands
    exc,            \* the exception a retry wrapper is about to handle
    result,         \* how the last finished operation ended: Ok or its exception
    renewCaller,    \* who called renew_token: "init", "call" or "direct"
    bcTries,        \* mtries of the wrapper around the business _make_call
    rnTries,        \* mtries of the wrapper around renew_token
    lpTries,        \* mtries of the wrapper around the login _make_call in progress
    lpAt,           \* the login request that wrapper re-issues
    tokenId,        \* get_token: what step 1 returned
    confirmIdx,     \* get_token_step2, EMAIL/SMS: which of the three POSTs is next
    count,          \* the poll loop's counter (step 2 APP, step 3)
    response,       \* get_token: the payload to validate
    bioClient,      \* signin_biometric: its Client
    session,        \* signin_biometric: session.headers of that Client as the
                    \* last call left them (no Client, or none sent yet: empty)
    lastReq,        \* the request sent last
    \* the server of a scripted APP login
    s2Script,       \* it answers s2Script times 422/pending, then 200 (NoScript: anything)
    \* observers
    bcLog,          \* outcome of each request of the business call in progress
    bcFirst,        \* x-api-authorization of the first request of that call (observer)
    bcRenews,       \* renew_token invocations started by that business call
    rnGetTokens,    \* get_token runs of the renew_token invocation in progress
    rnSignin,       \* POSTs to /signin of that invocation
    rnRejectedAt,   \* which POST to /signin of that invocation was first answered 401 (0: none)
    rnViolation,    \* a 422 poll answer of that invocation had another code than 9035
    violPosts,      \* a POST to /token was sent after rnViolation, same invocation
    rnRetryCause,   \* the exception after which that invocation re-ran get_token
    rnNet,          \* that invocation has sent a request
    rnIdem,         \* that invocation directly follows a successful one, token still valid
    lastRenewOk,    \* the last finished operation was a successful renew_token
    writes,         \* calls of _write_conf made by the last renew_token (observer)
    s2Posts,        \* POSTs to /token of the scripted step-2 call in progress or just over
    s2Body,         \* body of the 200 answer the server gave to that step-2 call
    initInfo,       \* what Revolut.__init__ saw at its token step
    data,           \* get_token_step2, EMAIL/SMS: the json payload of its POSTs
    \* observers of the get_token run in progress or just over
    step2Resp,      \* what get_token_step2 returned (once step 3 sends a request:
                    \* the fields get_token read from it, lines 42-43)
    s3Script,       \* the biometric server answers s3Script times 204, then 200
    s3Posts,        \* confirmation polls of a scripted step 3
    s3Body,         \* body of the 200 answer that ended the confirmation polling
    s3Sent,         \* a request of step 3 (selfie upload or poll) was sent
    finalSrc,       \* the step whose payload was handed to validate_token_response
    s2cLog,         \* the POSTs to /signin/confirm, a re-issued one counted once:
                    \* payload and expected status
    s2cPosts,       \* how many POSTs to /signin/confirm were sent
    rnBefore,       \* conf as it was when the renew_token in progress, or the one
                    \* that raised, was entered
    \* the functions applied on their own
    pFn,            \* which one: "str", "int", "encode" ("none": not yet)
    pIn,            \* its argument
    pOut,           \* its value
    \* two threads of one program that share conf
    thr,            \* each thread's position and the login payload it holds
    point,          \* token and expiry of conf when a request was last sent or
                    \* the credentials were last persisted (observer)
    overlapped      \* a thread has taken a step while the other one was inside
                    \* its business call (observer)

ctl == <<pc, exc, result, renewCaller, bcTries, rnTries, lpTries, lpAt>>
login == <<tokenId, confirmIdx, count, response, bioClient>>
files == <<commonFile, accFile>>
bcObs == <<bcLog, bcFirst, bcRenews>>
rnObs == <<rnGetTokens, rnSignin, rnRejectedAt, rnViolation, violPosts, rnRetryCause,
           rnNet, rnIdem, lastRenewOk, writes>>
s2Obs == <<s2Script, s2Posts, s2Body>>
gtObs == <<step2Resp, s3Script, s3Posts, s3Body, s3Sent, finalSrc>>
confirm == <<data, s2cLog, s2cPosts>>
gtAux == <<gtObs, confirm>>
pure == <<pFn, pIn, pOut>>
program == <<files, conf, now, ops, ctl, login, session, lastReq, bcObs, rnObs, s2Obs,
             initInfo, gtAux, rnBefore>>
conc == <<thr, point, overlapped>>
vars == <<program, pure, conc>>

\* ------------------------------------------------------------------------
\* Configuration
\* ------------------------------------------------------------------------
\* _load_config: the defaults
DefaultConf ==
    ("phone" :> None) @@ ("pass" :> None) @@ ("token" :> NoToken) @@ ("expiry" :> 0)
    @@ ("device" :> None) @@ ("channel" :> _DEFAULT_CHANNEL) @@ ("selfie" :> None)
    @@ ("persistedKeys" :> <<"token", "expiry", "device">>) @@ ("2FAProvider" :> FALSE)
    @@ ("interactive" :> FALSE) @@ ("accConf" :> None)

\* _load_config
_load_config(file, cnf) == DictUpdate(cnf, file)

\* Python truth of a str-or-None value
Truthy(s) == s # None /\ s # ""

\* what the files may hold when the process starts
CommonFiles ==
    {EmptyDict,
     ("phone" :> Phone) @@ ("pass" :> Password) @@ ("channel" :> "APP") @@ ("selfie" :> "file")}
AccFiles ==
    {EmptyDict} \cup
    {("token" :> OldToken) @@ ("expiry" :> e) @@ ("device" :> "dev0") : e \in ExpiryDates}

\* _write_conf that leaves the file as it is
_write_conf_Nothing(cnf, file) == file

\* _write_conf that adds the persisted keys to what the file holds
_write_conf_Merge(cnf, file) ==
    IF cnf["accConf"] = None THEN file
    ELSE DictUpdate(file, [k \in {cnf["persistedKeys"][i] : i \in 1..Len(cnf["persistedKeys"])}
                                   \cap DOMAIN cnf |-> cnf[k]])

\* _write_conf: the content of the per-account file afterwards

_write_conf(cnf, file) ==
    IF cnf["accConf"] = None THEN file
    ELSE LET keys == {cnf["persistedKeys"][i] : i \in 1..Len(cnf["persistedKeys"])}
             written == [k \in keys \cap DOMAIN cnf |-> cnf[k]]
         IN  IF DOMAIN written = {} THEN file ELSE written

NoInitInfo == [reached |-> FALSE, tokenArg |-> FALSE, cached |-> FALSE, delta |-> 0,
               renewed |-> FALSE]
NoClient == [token |-> NoToken, auth |-> FALSE, renew_token |-> FALSE]

\* no operation in progress, none made yet
InitIdle ==
    /\ now = 0
    /\ ops = 0
    /\ exc = NoExc
    /\ result = NoExc
    /\ renewCaller = "none"
    /\ bcTries = 0 /\ rnTries = 0 /\ lpTries = 0 /\ lpAt = "none"
    /\ tokenId = None /\ confirmIdx = 0 /\ count = 0
    /\ response = EmptyDict
    /\ bioClient = NoClient
    /\ session = EmptyDict
    /\ lastReq = NoRequest
    /\ s2Script = NoScript
    /\ bcLog = <<>> /\ bcFirst = NoToken /\ bcRenews = 0
    /\ rnGetTokens = 0 /\ rnSignin = 0 /\ rnRejectedAt = 0 /\ rnViolation = FALSE
    /\ violPosts = FALSE /\ rnRetryCause = NoExc /\ rnNet = FALSE /\ rnIdem = FALSE
    /\ lastRenewOk = FALSE
    /\ writes = 0
    /\ s2Posts = 0 /\ s2Body = EmptyDict
    /\ initInfo = NoInitInfo
    /\ data = EmptyDict /\ s2cLog = <<>> /\ s2cPosts = 0
    /\ step2Resp = EmptyDict
    /\ s3Script = NoScript /\ s3Posts = 0 /\ s3Body = EmptyDict /\ s3Sent = FALSE
    /\ finalSrc = "none"
    /\ rnBefore = EmptyDict

InitProgram ==
    /\ commonFile \in CommonFiles
    /\ accFile \in AccFiles
    /\ conf = EmptyDict
    /\ pc = "start"
    /\ InitIdle

NoThread == [pc |-> "idle", r |-> EmptyDict]
NoPoint == [kind |-> "none", token |-> NoToken, expiry |-> 0]
InitConc == thr = [i \in {} |-> NoThread] /\ point = NoPoint /\ overlapped = FALSE

Init ==
    /\ InitProgram
    /\ pFn = "none" /\ pIn = <<>> /\ pOut = FALSE
    /\ InitConc

\* ------------------------------------------------------------------------
\* renew_token and get_token: entering and leaving them
\* ------------------------------------------------------------------------
\* the token test of Revolut.__init__, negated
TokenValid(cnf, t) == cnf["token"] # NoToken /\ cnf["expiry"] - t > SafetyMarginMs

\* the Client of steps 1 and 2
\* a login Client left in the default renew-on-expiry mode
LoginClient_Renewing == Client(NoToken, TRUE)

LoginClient == Client(NoToken, FALSE)
\* the Client of Revolut
RevolutClient == Client(TokenTrue, TRUE)

\* the locals of get_token and of the functions it calls, when none is running
S2Reset == s2Script' = NoScript /\ s2Posts' = 0 /\ s2Body' = EmptyDict
ConfirmReset == data' = EmptyDict /\ s2cLog' = <<>> /\ s2cPosts' = 0
GtObsReset ==
    /\ step2Resp' = EmptyDict
    /\ s3Script' = NoScript /\ s3Posts' = 0 /\ s3Body' = EmptyDict /\ s3Sent' = FALSE
    /\ finalSrc' = "none"
LocalsReset ==
    /\ lpTries' = 0 /\ lpAt' = "none"
    /\ tokenId' = None /\ confirmIdx' = 0 /\ count' = 0
    /\ response' = EmptyDict
    /\ bioClient' = NoClient
LoginReset == LocalsReset /\ S2Reset

\* get_token is entered: step 1 is next
GetTokenStart ==
    /\ pc' = "step1"
    /\ lpTries' = CallTries /\ lpAt' = "step1"
    /\ tokenId' = None /\ confirmIdx' = 0 /\ count' = 0
    /\ response' = EmptyDict
    /\ bioClient' = NoClient
    /\ S2Reset
    /\ ConfirmReset
    /\ GtObsReset

\* renew_token(cnf) is called by caller
RenewStart(caller, cnf) ==
    /\ renewCaller' = caller
    /\ rnBefore' = cnf
    /\ rnTries' = RenewTries
    /\ GetTokenStart
    /\ exc' = NoExc
    /\ rnGetTokens' = 1 /\ rnSignin' = 0 /\ rnRejectedAt' = 0 /\ rnViolation' = FALSE
    /\ violPosts' = FALSE /\ rnRetryCause' = NoExc /\ rnNet' = FALSE
    /\ rnIdem' = (lastRenewOk /\ TokenValid(cnf, now))
    /\ lastRenewOk' = FALSE
    /\ writes' = 0

\* an exception raised by get_token leaves renew_token and reaches its caller
\* (Revolut.__init__, the callback of a business call, or a direct caller)
\* a retry wrapper that swallows what the callback raised and goes on
RenewRaise_Swallow(e) ==
    /\ pc' = IF renewCaller = "init" THEN "dead"
             ELSE IF renewCaller = "call" THEN "bc_send" ELSE "idle"
    /\ result' = e
    /\ exc' = NoExc
    /\ LoginReset
    /\ ConfirmReset
    /\ UNCHANGED gtObs

RenewRaise(e) ==
    /\ pc' = IF renewCaller = "init" THEN "dead" ELSE "idle"
    /\ result' = e
    /\ exc' = NoExc
    /\ LoginReset
    /\ ConfirmReset
    /\ UNCHANGED gtObs

\* renew_token returns to its caller; after the callback of a business
\* call the wrapper of that call decrements mtries and calls _make_call again
RenewReturn ==
    /\ pc' = IF renewCaller = "call" THEN "bc_send" ELSE "idle"
    /\ result' = IF renewCaller = "call" THEN result ELSE Ok
    /\ bcTries' = IF renewCaller = "call" THEN bcTries - 1 ELSE bcTries
    /\ lastRenewOk' = (renewCaller # "call")
    /\ exc' = NoExc
    /\ LoginReset

\* ------------------------------------------------------------------------
\* Revolut.__init__
\* ------------------------------------------------------------------------
TokenArgs == {NoToken, ArgToken}

\* what the user of an interactive run enters at the prompts of lines 506
\* and 531: input(...).strip() and getpass(...) accept the empty line
TypedLines == {""}

\* the arguments Revolut is constructed with: non-interactive runs, and
\* interactive ones, where typed is the line the user enters at the prompts
\* of lines 506 and 531 (it may be empty)
CtorArgs ==
    {[device_id |-> None, token |-> t, password |-> pp[2], phone |-> pp[1],
      channel |-> cp[1], provider_2fa |-> cp[2], interactive |-> FALSE, typed |-> Phone] :
        t \in TokenArgs,
        pp \in {<<Phone, Password>>, <<None, None>>},
        cp \in {<<"APP", FALSE>>, <<"EMAIL", TRUE>>, <<"SMS", FALSE>>, <<None, FALSE>>,
                <<"FAX", FALSE>>}}
    \cup
    {[device_id |-> None, token |-> NoToken, password |-> None, phone |-> None,
      channel |-> "APP", provider_2fa |-> FALSE, interactive |-> TRUE, typed |-> ty] :
        ty \in TypedLines}

\* the conf built by lines 487-556, or the exception raised there
InitConf(a) ==
    LET c0 == _load_config(commonFile, DefaultConf)
        c1 == DictSet(c0, "interactive", a.interactive)
        c2 == IF a.phone # None THEN DictSet(c1, "phone", a.phone)
              ELSE IF ~Truthy(c1["phone"]) THEN DictSet(c1, "phone", a.typed)
              ELSE c1
        c3 == DictSet(_load_config(accFile, c2), "accConf", "acc.config")
        c4 == IF a.device_id # None THEN DictSet(c3, "device", a.device_id)
              ELSE IF ~Truthy(c3["device"]) THEN DictSet(c3, "device", "uuid4")
              ELSE c3
        c5 == IF a.password # None THEN DictSet(c4, "pass", a.password)
              ELSE IF ~Truthy(c4["pass"]) THEN DictSet(c4, "pass", a.typed)
              ELSE c4
        c6 == IF a.channel # None THEN DictSet(c5, "channel", a.channel)
              ELSE IF ~Truthy(c5["channel"]) THEN DictSet(c5, "channel", _DEFAULT_CHANNEL)
              ELSE c5
        c7 == IF a.provider_2fa THEN DictSet(c6, "2FAProvider", TRUE) ELSE c6
    IN  IF a.phone = None /\ ~Truthy(c1["phone"]) /\ ~a.interactive
            THEN [error |-> Exc("RuntimeError", "no-phone", "", 0), conf |-> c1]
        ELSE IF a.password = None /\ ~Truthy(c4["pass"]) /\ ~a.interactive
            THEN [error |-> Exc("RuntimeError", "no-password", "", 0), conf |-> c4]
        ELSE IF c6["channel"] \notin _SUPPORTED_CHANNELS
            THEN [error |-> Exc("RuntimeError", "channel", "", 0), conf |-> c6]
        ELSE IF ~a.provider_2fa /\ a.channel \in {"EMAIL", "SMS"} /\ ~a.interactive
            THEN [error |-> Exc("RuntimeError", "no-provider", "", 0), conf |-> c6]
        ELSE [error |-> Ok, conf |-> c7]

\* the test of line 561 with < for <=
NeedsRenewal_Strict(cnf, t) == cnf["token"] = NoToken \/ cnf["expiry"] - t < SafetyMarginMs

\* the test of line 561: renew_token is to be called
NeedsRenewal(cnf, t) == cnf["token"] = NoToken \/ cnf["expiry"] - t <= SafetyMarginMs

\* what __init__ saw at line 559 (observer)
InitSaw(a, c, renewed) ==
    [reached |-> TRUE, tokenArg |-> a.token # NoToken, cached |-> c["token"] # NoToken,
     delta |-> c["expiry"] - now, renewed |-> renewed]

\* a constructor that does not look at its token argument
TokenArgGiven_Never(a) == FALSE

\* line 559: `if token and type(token) == str`
TokenArgGiven(a) == a.token # NoToken

\* Revolut.__init__ up to and including its call of renew_token
Construct(a) ==
    /\ pc = "start"
    /\ LET r == InitConf(a)
           c == r.conf
       IN  IF r.error # Ok
           THEN /\ conf' = c
                /\ pc' = "dead" /\ result' = r.error
                /\ initInfo' = initInfo
                /\ UNCHANGED <<exc, renewCaller, rnBefore, rnTries, lpTries, lpAt, login,
                               rnObs, s2Obs, gtAux>>
           ELSE IF TokenArgGiven(a)
           THEN /\ conf' = DictSet(c, "token", a.token)
                /\ pc' = "idle" /\ result' = Ok
                /\ initInfo' = InitSaw(a, c, FALSE)
                /\ UNCHANGED <<exc, renewCaller, rnBefore, rnTries, lpTries, lpAt, login,
                               rnObs, s2Obs, gtAux>>
           ELSE /\ conf' = c
                /\ IF NeedsRenewal(c, now)
                   THEN /\ RenewStart("init", c)
                        /\ result' = NoExc
                        /\ initInfo' = InitSaw(a, c, TRUE)
                   ELSE /\ pc' = "idle" /\ result' = Ok
                        /\ initInfo' = InitSaw(a, c, FALSE)
                        /\ UNCHANGED <<exc, renewCaller, rnBefore, rnTries, lpTries, lpAt,
                                       login, rnObs,
                                       s2Obs, gtAux>>
    /\ UNCHANGED <<pure, conc, session, files, now, ops, bcTries, lastReq, bcObs>>

\* ------------------------------------------------------------------------
\* A business operation: Client._get through Client._make_call_retried
\* ------------------------------------------------------------------------
\* how the observer names the outcome of one business request
Outcome(o) ==
    CASE o = Ok -> "ok"
      [] o.type = "TokenExpiredException" -> "expired"
      [] o.type = "ConnectionError" -> "unexpected"
      [] OTHER -> "neterr"

\* the observers of the previous operation are cleared when one starts
ObsReset ==
    /\ rnGetTokens' = 0 /\ rnSignin' = 0 /\ rnRejectedAt' = 0 /\ rnViolation' = FALSE
    /\ violPosts' = FALSE /\ rnRetryCause' = NoExc /\ rnNet' = FALSE /\ rnIdem' = FALSE
    /\ lastRenewOk' = FALSE
    /\ writes' = 0
    /\ initInfo' = NoInitInfo
    /\ ConfirmReset
    /\ GtObsReset
    /\ rnBefore' = EmptyDict

\* a business operation (get_accounts, ...) calls self.client._get
BeginCall ==
    /\ pc = "idle"
    /\ ops < MaxOps
    /\ ops' = ops + 1
    /\ pc' = "bc_send"
    /\ bcTries' = CallTries
    /\ result' = NoExc
    /\ bcLog' = <<>> /\ bcFirst' = NoToken /\ bcRenews' = 0
    /\ ObsReset
    /\ UNCHANGED <<pure, conc, session, files, conf, now, exc, renewCaller, rnTries, lpTries, lpAt, login,
                   lastReq, s2Obs>>

\* Client._make_call of the Revolut client: one request, one answer (the
\* observers of a renewal are cleared when the request is sent)
MakeCall(ret) ==
    /\ pc = "bc_send"
    /\ lastReq' = Request(RevolutClient, conf, _URL_GET_ACCOUNTS, FALSE)
    /\ LET o == _make_call(RevolutClient, _URL_GET_ACCOUNTS, {200}, ret)
       IN  /\ bcLog' = Append(bcLog, Outcome(o))
           /\ bcFirst' = IF bcLog = <<>> THEN lastReq'.headers["x-api-authorization"]
                         ELSE bcFirst
           /\ IF o = Ok
              THEN pc' = "idle" /\ result' = Ok /\ exc' = NoExc
              ELSE pc' = "bc_exc" /\ exc' = o /\ result' = result
    /\ ConfirmReset
    /\ GtObsReset
    /\ rnBefore' = EmptyDict
    /\ UNCHANGED <<pure, conc, session, files, conf, now, ops, renewCaller, bcTries, rnTries, lpTries, lpAt,
                   login, bcRenews, rnObs, s2Obs, initInfo>>

\* the retry wrapper of Client._make_call_retried handles what _make_call raised
CallRetry ==
    /\ pc = "bc_exc"
    /\ IF retry_catches(bcTries, exc, ExceptionClass)
       THEN IF HasRenewCallback(exc)
            THEN /\ RenewStart("call", conf)
                 /\ bcRenews' = bcRenews + 1
                 /\ UNCHANGED <<bcTries, result>>
            ELSE /\ bcTries' = bcTries - 1
                 /\ pc' = "bc_send"
                 /\ exc' = NoExc
                 /\ UNCHANGED <<result, renewCaller, rnBefore, rnTries, lpTries, lpAt, login,
                                bcRenews,
                                rnObs, s2Obs, gtAux>>
       ELSE /\ pc' = "idle"
            /\ result' = exc
            /\ exc' = NoExc
            /\ UNCHANGED <<bcTries, renewCaller, rnBefore, rnTries, lpTries, lpAt, login, bcRenews,
                           rnObs, s2Obs, gtAux>>
    /\ UNCHANGED <<pure, conc, session, files, conf, now, ops, lastReq, bcLog, bcFirst, initInfo>>

\* renew_token(conf) called on its own
DirectRenew ==
    /\ pc = "idle"
    /\ ops < MaxOps
    /\ ops' = ops + 1
    /\ RenewStart("direct", conf)
    /\ result' = NoExc
    /\ bcLog' = <<>> /\ bcFirst' = NoToken /\ bcRenews' = 0
    /\ initInfo' = NoInitInfo
    /\ UNCHANGED <<pure, conc, session, files, conf, now, bcTries, lastReq>>

\* @retry(ConnectionError, tries=2) around renew_token handles what get_token raised
RenewRetry ==
    /\ pc = "rn_exc"
    /\ IF retry_catches(rnTries, exc, ConnectionErrorClass)
       THEN /\ rnTries' = rnTries - 1
            /\ rnGetTokens' = rnGetTokens + 1
            /\ rnRetryCause' = exc
            /\ GetTokenStart
            /\ exc' = NoExc
            /\ UNCHANGED result
       ELSE /\ RenewRaise(exc)
            /\ UNCHANGED <<rnTries, rnGetTokens, rnRetryCause>>
    /\ UNCHANGED <<pure, conc, session, files, conf, now, ops, renewCaller, rnBefore, bcTries, lastReq, bcObs,
                   rnSignin,
                   rnRejectedAt, rnViolation, violPosts, rnNet, rnIdem, lastRenewOk, writes, initInfo>>

\* ------------------------------------------------------------------------
\* The login protocol: get_token
\* ------------------------------------------------------------------------
\* the login steps that send a request
IsPost(p) == p \in {"step1", "s2_confirm", "s2_post", "s3_selfie", "s3_post"}

\* the locals of get_token and of the step in progress
\* a poll counter that starts over instead of growing
NextCount_Wraps(c) == IF c >= 1 THEN 0 ELSE c + 1

\* count += 1 (lines 172 and 233 of token_renewal)
NextCount(c) == c + 1

Locals(tid, idx, cnt, resp, bio) ==
    /\ tokenId' = tid /\ confirmIdx' = idx /\ count' = cnt
    /\ response' = resp /\ bioClient' = bio

\* get_token goes on at p; a request there is made through a fresh retry wrapper
Step(p) ==
    /\ pc' = p
    /\ lpTries' = IF IsPost(p) THEN CallTries ELSE 0
    /\ lpAt' = IF IsPost(p) THEN p ELSE "none"
    /\ exc' = exc

\* an exception leaves get_token: its locals are gone
Raise(e) == pc' = "rn_exc" /\ exc' = e /\ LocalsReset

\* the retry wrapper of a login Client handles what its _make_call raised:
\* the request is re-issued, or the exception leaves _post and get_token
LoginFail(o, posts) ==
    IF retry_catches(lpTries, o, ExceptionClass)
    THEN /\ IF HasRenewCallback(o)
            THEN pc' = "nested_renew" /\ exc' = o /\ UNCHANGED lpTries
            ELSE pc' = lpAt /\ lpTries' = lpTries - 1 /\ UNCHANGED exc
         /\ s2Posts' = posts
         /\ UNCHANGED <<lpAt, login, s2Script, s2Body>>
    ELSE Raise(o) /\ s2Posts' = posts /\ UNCHANGED <<s2Script, s2Body>>

\* the runs explored against a scripted server: those of the first
\* get_token of a renew_token called on its own
ScriptedRun == renewCaller = "direct" /\ rnGetTokens = 1

\* what the server may answer to the next poll of step 2: a scripted one
\* its script, another one a bounded number of 422/pending
ScriptAllows(ret) ==
    IF s2Script = NoScript
    THEN ret = Pending => count < MaxFreePending
    ELSE IF s2Posts < s2Script THEN ret = Pending ELSE ret.status = 200

\* get_token_step1: POST /signin; on success get_token_step2 starts
GetTokenStep1(ret, script) ==
    /\ pc = "step1"
    /\ lastReq' = Request(LoginClient, conf, _URL_GET_TOKEN_STEP1, FALSE)
    /\ rnNet' = TRUE
    /\ rnSignin' = IF rnSignin < SigninCounted THEN rnSignin + 1 ELSE rnSignin
    /\ rnRejectedAt' = IF rnRejectedAt = 0 /\ ret.status = 401 THEN rnSignin' ELSE rnRejectedAt
    /\ LET o == _make_call(LoginClient, _URL_GET_TOKEN_STEP1, {200}, ret)
       IN  IF o # Ok
           THEN LoginFail(o, 0) /\ script = NoScript
           ELSE IF conf["channel"] = "APP"
           THEN /\ Step("s2_post")
                /\ Locals(IF "tokenId" \in DOMAIN ret.body THEN ret.body["tokenId"] ELSE None,
                          0, 0, EmptyDict, NoClient)
                /\ s2Script' = script /\ s2Posts' = 0 /\ s2Body' = EmptyDict
                /\ script # NoScript => ScriptedRun
           ELSE IF conf["channel"] \notin {"EMAIL", "SMS"}
           THEN Raise(Exc("NotImplementedError", "channel", "", 0)) /\ script = NoScript
                /\ UNCHANGED s2Obs
           ELSE /\ script = NoScript
                /\ Step("s2_code")
                /\ UNCHANGED <<login, s2Obs>>
    /\ UNCHANGED <<pure, conc, session, files, conf, now, ops, result, renewCaller, rnBefore, bcTries, rnTries,
                   bcObs, rnGetTokens, rnViolation, violPosts, rnRetryCause, rnIdem,
                   lastRenewOk, writes, initInfo, gtAux>>

\* get_token_step2, EMAIL/SMS: the 6-digit code from the provider or the prompt
Step2Code(code) ==
    /\ pc = "s2_code"
    /\ IF conf["2FAProvider"]
       THEN IF ~is_valid_2fa_code(code)
            THEN Raise(Exc("ValueError", "code", "", 0)) /\ UNCHANGED s2Obs
            ELSE Step("s2_confirm") /\ Locals(None, 1, 0, EmptyDict, NoClient)
                 /\ UNCHANGED s2Obs
       ELSE IF ~conf["interactive"]
            THEN Raise(Exc("RuntimeError", "no-provider", "", 0)) /\ UNCHANGED s2Obs
            ELSE IF is_valid_2fa_code(code)
                 THEN Step("s2_confirm") /\ Locals(None, 1, 0, EmptyDict, NoClient)
                      /\ UNCHANGED s2Obs
                 ELSE Step("s2_code") /\ UNCHANGED <<login, s2Obs>>
    /\ data' = IF is_valid_2fa_code(code) /\ (conf["2FAProvider"] \/ conf["interactive"])
               THEN ("phone" :> conf["phone"]) @@ ("code" :> code)
               ELSE data
    /\ UNCHANGED <<pure, conc, session, files, conf, now, ops, result, renewCaller, rnBefore, bcTries, rnTries,
                   lastReq, bcObs, rnObs, initInfo, s2cLog, s2cPosts, gtObs>>

\* get_token_step2, EMAIL/SMS: the three POSTs to /signin/confirm
Step2Confirm(ret) ==
    /\ pc = "s2_confirm"
    /\ lastReq' = Request(LoginClient, conf, _URL_GET_TOKEN_STEP2, FALSE)
    /\ rnNet' = TRUE
    /\ LET expected == IF confirmIdx < 3 THEN {204} ELSE {200}
           o == _make_call(LoginClient, _URL_GET_TOKEN_STEP2, expected, ret)
       IN  IF o # Ok
           THEN LoginFail(o, 0)
           ELSE IF confirmIdx < 3
           THEN Step("s2_confirm") /\ Locals(None, confirmIdx + 1, 0, EmptyDict, NoClient)
                /\ UNCHANGED s2Obs
           ELSE Step("gt_after2") /\ Locals(None, 0, 0, ret.body, NoClient)
                /\ UNCHANGED s2Obs
    /\ LET expected == IF confirmIdx < 3 THEN {204} ELSE {200}
           ok == _make_call(LoginClient, _URL_GET_TOKEN_STEP2, expected, ret) = Ok
           post == [json |-> data, expected |-> expected]
       IN  /\ s2cLog' = IF lpTries < CallTries THEN s2cLog ELSE Append(s2cLog, post)
           /\ s2cPosts' = s2cPosts + 1
           /\ data' = IF ok /\ confirmIdx = 1 THEN DictSet(data, "password", conf["pass"])
                      ELSE IF ok /\ confirmIdx = 2 THEN DictSet(data, "limitedAccess", FALSE)
                      ELSE data
           /\ step2Resp' = IF ok /\ confirmIdx = 3 THEN ret.body ELSE step2Resp
    /\ UNCHANGED <<pure, conc, session, files, conf, now, ops, result, renewCaller, rnBefore, bcTries, rnTries,
                   bcObs, rnGetTokens, rnSignin, rnRejectedAt, rnViolation, violPosts,
                   rnRetryCause, rnIdem, lastRenewOk, writes, initInfo, s3Script, s3Posts, s3Body,
                   s3Sent, finalSrc>>

\* get_token_step2, APP: one POST to /token, the test of its answer and,
\* when the loop goes on, the test of the cap at the top of the loop
Step2Poll(ret) ==
    /\ pc = "s2_post"
    /\ ScriptAllows(ret)
    /\ lastReq' = Request(LoginClient, conf, _URL_GET_TOKEN_STEP2_APP, FALSE)
    /\ rnNet' = TRUE
    /\ violPosts' = (violPosts \/ rnViolation)
    /\ LET o == _make_call(LoginClient, _URL_GET_TOKEN_STEP2_APP, {200, 422}, ret)
           posts == IF s2Script = NoScript THEN 0 ELSE s2Posts + 1
       IN  /\ rnViolation' = (rnViolation \/ (o = Ok /\ ret.status = 422
                                 /\ "code" \in DOMAIN ret.body /\ ret.body["code"] # PendingCode))
           /\ IF o # Ok
              THEN LoginFail(o, posts)
              ELSE IF ret.status = 200
              THEN /\ Step("gt_after2") /\ Locals(None, 0, 0, ret.body, NoClient)
                   /\ s2Posts' = posts /\ s2Body' = ret.body /\ UNCHANGED s2Script
              ELSE IF "code" \notin DOMAIN ret.body
              THEN /\ Raise(Exc("KeyError", "code", "", 0))
                   /\ s2Posts' = posts /\ UNCHANGED <<s2Script, s2Body>>
              ELSE IF ret.body["code"] # PendingCode
              THEN /\ Raise(UnexpectedCode)
                   /\ s2Posts' = posts /\ UNCHANGED <<s2Script, s2Body>>
              ELSE IF NextCount(count) > AppPollCap
              THEN /\ Raise(Timeout)
                   /\ s2Posts' = posts /\ UNCHANGED <<s2Script, s2Body>>
              ELSE /\ Step("s2_post")
                   /\ Locals(tokenId, 0, NextCount(count), EmptyDict, NoClient)
                   /\ s2Posts' = posts /\ UNCHANGED <<s2Script, s2Body>>
    /\ step2Resp' =
            IF _make_call(LoginClient, _URL_GET_TOKEN_STEP2_APP, {200, 422}, ret) = Ok
               /\ ret.status = 200
            THEN ret.body ELSE step2Resp
    /\ UNCHANGED <<pure, conc, session, files, conf, now, ops, result, renewCaller, rnBefore, bcTries, rnTries,
                   bcObs, rnGetTokens, rnSignin, rnRejectedAt, rnRetryCause, rnIdem,
                   lastRenewOk, writes, initInfo, confirm, s3Script, s3Posts, s3Body, s3Sent,
                   finalSrc>>

\* validate_token_response without its test of accessToken
validate_token_response_NoAccessToken(r) ==
    IF \E i \in {"user", "tokenExpiryDate"} : i \notin DOMAIN r
    THEN TRUE
    ELSE "id" \notin DOMAIN r["user"]

\* validate_token_response: TRUE when it raises
validate_token_response(r) ==
    IF \E i \in {"user", "accessToken", "tokenExpiryDate"} : i \notin DOMAIN r
    THEN TRUE
    ELSE "id" \notin DOMAIN r["user"]

\* extract_token
extract_token(json_response) ==
    token_encode(json_response["user"]["id"], json_response["accessToken"])

\* renew_token lines 242-243: the conf with the new token and expiry (ms)
\* renew_token that also replaces the device id
Installed_NewDevice(cnf, r) ==
    DictSet(DictSet(DictSet(cnf, "token", extract_token(r)), "expiry", r["tokenExpiryDate"]),
            "device", "uuid4-2")

Installed(cnf, r) ==
    DictSet(DictSet(cnf, "token", extract_token(r)), "expiry", r["tokenExpiryDate"])

\* get_token lines 46-48 raise nothing on the payload r
FinishOk(r) ==
    /\ ~validate_token_response(r)
    /\ {"user", "accessToken", "tokenExpiryDate"} \subseteq DOMAIN r
    /\ "id" \in DOMAIN r["user"]

\* get_token lines 46-48 on the payload r: Ok, or the exception raised
get_token_tail(r) ==
    IF validate_token_response(r) THEN MissingKey
    ELSE IF "tokenExpiryDate" \notin DOMAIN r THEN Exc("KeyError", "tokenExpiryDate", "", 0)
    ELSE IF "user" \notin DOMAIN r \/ "id" \notin DOMAIN r["user"] \/ "accessToken" \notin DOMAIN r
    THEN Exc("KeyError", "token", "", 0)
    ELSE Ok

\* renew_token assigning the expiry before get_token has validated the payload
renew_token_conf_Early(cnf, o, r) ==
    IF o = Ok THEN Installed(cnf, r)
    ELSE IF "tokenExpiryDate" \in DOMAIN r THEN DictSet(cnf, "expiry", r["tokenExpiryDate"])
    ELSE cnf

\* renew_token lines 241-243: conf after get_token ended with o on the
\* payload r; an exception of get_token leaves before the assignments
renew_token_conf(cnf, o, r) == IF o = Ok THEN Installed(cnf, r) ELSE cnf

\* get_token lines 46-62, then renew_token lines 242-246: validate the
\* payload r, install token and expiry, persist, return to the caller
GetTokenFinish(r) ==
    LET o == get_token_tail(r)
    IN  IF o # Ok
        THEN /\ Raise(o)
             /\ S2Reset
             /\ conf' = renew_token_conf(conf, o, r)
             /\ UNCHANGED <<accFile, result, bcTries, lastRenewOk, writes>>
        ELSE /\ conf' = renew_token_conf(conf, o, r)
             /\ accFile' = _write_conf(conf', accFile)
             /\ writes' = writes + 1
             /\ RenewReturn

\* the test of line 41 always true
Has3FAT_Always(r) == TRUE

\* get_token line 41: the payload of step 2 holds a third-factor token
Has3FAT(r) == _3FAT \in DOMAIN r

\* get_token lines 41-62 and signin_biometric lines 192-214: without a
\* third-factor token in the payload of step 2 get_token finishes, with one
\* step 3 is entered with a selfie and a Client of its own
GetTokenBranch(fileTyped) ==
    /\ pc = "gt_after2"
    /\ IF ~Has3FAT(response)
       THEN GetTokenFinish(response)
       ELSE /\ IF "user" \notin DOMAIN response \/ "id" \notin DOMAIN response["user"]
               THEN Raise(Exc("KeyError", "user", "", 0)) /\ S2Reset
               ELSE IF _3FAT \notin DOMAIN response
               THEN Raise(Exc("KeyError", _3FAT, "", 0)) /\ S2Reset
               ELSE IF conf["selfie"] = None /\ ~conf["interactive"]
               THEN Raise(Exc("RuntimeError", "no-selfie", "", 0)) /\ S2Reset
               ELSE IF conf["selfie"] = None /\ ~fileTyped
               THEN Step("gt_after2") /\ UNCHANGED <<login, s2Obs>>
               ELSE /\ Step("s3_selfie")
                    /\ Locals(None, 0, 0, EmptyDict,
                              Client(token_encode(response["user"]["id"], response[_3FAT]),
                                     FALSE))
                    /\ S2Reset
            /\ UNCHANGED <<conf, accFile, result, bcTries, lastRenewOk, writes>>
    /\ finalSrc' = IF ~Has3FAT(response) THEN "step2" ELSE finalSrc
    /\ rnBefore' = IF ~Has3FAT(response) /\ FinishOk(response) THEN EmptyDict ELSE rnBefore
    /\ ConfirmReset
    /\ UNCHANGED <<pure, conc, session, commonFile, now, ops, renewCaller, rnTries, lastReq, bcObs,
                   rnGetTokens, rnSignin, rnRejectedAt, rnViolation, violPosts, rnRetryCause,
                   rnNet, rnIdem, initInfo, step2Resp, s3Script, s3Posts, s3Body, s3Sent>>

\* signin_biometric: the multipart upload of the selfie
SelfiePost(ret, script) ==
    /\ pc = "s3_selfie"
    /\ lastReq' = [url |-> _URL_SELFIE, files |-> TRUE,
                   headers |-> MakeCallHeaders(session, bioClient, conf, TRUE)]
    /\ rnNet' = TRUE
    /\ LET o == _make_call(bioClient, _URL_SELFIE, {200}, ret)
       IN  IF o # Ok
           THEN LoginFail(o, 0)
           ELSE IF "id" \notin DOMAIN ret.body
           THEN Raise(Exc("KeyError", "id", "", 0)) /\ UNCHANGED s2Obs
           ELSE Step("s3_post") /\ UNCHANGED <<login, s2Obs>>
    /\ s3Sent' = TRUE
    /\ IF _make_call(bioClient, _URL_SELFIE, {200}, ret) = Ok /\ "id" \in DOMAIN ret.body
       THEN s3Script' = script /\ (script # NoScript => ScriptedRun)
       ELSE script = NoScript /\ UNCHANGED s3Script
    /\ step2Resp' = [k \in {"user", _3FAT} \cap DOMAIN step2Resp |-> step2Resp[k]]
    /\ session' = IF bioClient' = NoClient THEN EmptyDict ELSE lastReq'.headers
    /\ UNCHANGED <<pure, conc, files, conf, now, ops, result, renewCaller, rnBefore, bcTries, rnTries,
                   bcObs, rnGetTokens, rnSignin, rnRejectedAt, rnViolation, violPosts,
                   rnRetryCause, rnIdem, lastRenewOk, writes, initInfo, confirm, s3Posts, s3Body,
                   finalSrc>>

\* what the server may answer to the next confirmation poll of step 3: a
\* scripted one its script, another one a bounded number of 204
BioScriptAllows(ret) ==
    IF s3Script = NoScript
    THEN ret.status = 204 => count < MaxFreePending
    ELSE IF s3Posts < s3Script THEN ret = Resp(204, FALSE, EmptyDict) ELSE ret.status = 200

\* signin_biometric: one confirmation poll and, when the loop goes on, the
\* test of the cap at the top of the loop; a 200 ends step 3 and get_token
\* finishes with its payload
BioPoll(ret) ==
    /\ pc = "s3_post"
    /\ BioScriptAllows(ret)
    /\ lastReq' = [url |-> _URL_3FA_CONFIRM_TMPLT, files |-> FALSE,
                   headers |-> MakeCallHeaders(session, bioClient, conf, FALSE)]
    /\ rnNet' = TRUE
    /\ LET o == _make_call(bioClient, _URL_3FA_CONFIRM_TMPLT, {200, 204}, ret)
       IN  IF o = Ok /\ ret.status = 200
           THEN GetTokenFinish(ret.body)
           ELSE /\ IF o # Ok
                   THEN LoginFail(o, 0)
                   ELSE IF NextCount(count) > BiometricPollCap
                   THEN Raise(Timeout) /\ UNCHANGED s2Obs
                   ELSE /\ Step("s3_post")
                        /\ Locals(None, 0, NextCount(count), EmptyDict, bioClient)
                        /\ UNCHANGED s2Obs
                /\ UNCHANGED <<conf, accFile, result, bcTries, lastRenewOk, writes>>
    /\ s3Posts' = IF s3Script = NoScript THEN 0 ELSE s3Posts + 1
    /\ LET done == _make_call(bioClient, _URL_3FA_CONFIRM_TMPLT, {200, 204}, ret) = Ok
                       /\ ret.status = 200
       IN  /\ s3Body' = IF done THEN ret.body ELSE s3Body
           /\ finalSrc' = IF done THEN "step3" ELSE finalSrc
           /\ rnBefore' = IF done /\ FinishOk(ret.body) THEN EmptyDict ELSE rnBefore
    /\ session' = IF bioClient' = NoClient THEN EmptyDict ELSE lastReq'.headers
    /\ UNCHANGED <<pure, conc, commonFile, now, ops, renewCaller, rnTries, bcObs,
                   rnGetTokens, rnSignin, rnRejectedAt, rnViolation, violPosts, rnRetryCause,
                   rnIdem, initInfo, confirm, step2Resp, s3Script, s3Sent>>

\* ------------------------------------------------------------------------
\* The program
\* ------------------------------------------------------------------------
Scripts == {NoScript} \cup ScriptLengths
BioScripts == {NoScript} \cup BioScriptLengths

Next ==
    \/ \E a \in CtorArgs : Construct(a)
    \/ BeginCall
    \/ \E ret \in BusinessResponses : MakeCall(ret)
    \/ CallRetry
    \/ DirectRenew
    \/ RenewRetry
    \/ \E ret \in Step1Responses, script \in Scripts : GetTokenStep1(ret, script)
    \/ \E code \in CodeInputs : Step2Code(code)
    \/ \E ret \in ConfirmResponses : Step2Confirm(ret)
    \/ \E ret \in PollResponses : Step2Poll(ret)
    \/ \E fileTyped \in BOOLEAN : GetTokenBranch(fileTyped)
    \/ \E ret \in SelfieResponses, script \in BioScripts : SelfiePost(ret, script)
    \/ \E ret \in BioPollResponses : BioPoll(ret)

Spec == Init /\ [][Next]_vars

\* The program is one thread that runs on until its operation is over:
\* every request is answered or fails (requestTimeout), every sleep ends.
\* What the server answers is not constrained.
LiveInit == Init /\ commonFile # EmptyDict /\ accFile = EmptyDict
LiveSpec == LiveInit /\ [][Next]_vars /\ WF_vars(Next)

\* ------------------------------------------------------------------------
\* is_valid_2fa_code and token_encode applied on their own
\* ------------------------------------------------------------------------
Strings(chars, n) == UNION {[1..k -> chars] : k \in 0..n}
StrInputs == {[type |-> "str", val |-> v] : v \in Strings(StrChars, MaxStrLen)}
IntInputs ==
    {[type |-> "int", val |-> sg * (10 ^ k + d)] :
        sg \in {0 - 1, 1}, k \in 0..MaxDigits, d \in {0 - 1, 0, 1, 2345}}
OtherInputs == {[type |-> "float", val |-> 123456], [type |-> "NoneType", val |-> 0]}
PairInputs ==
    {[type |-> "pair", f |-> f, s |-> s] :
        f \in Strings(PairChars, MaxIdLen), s \in Strings(PairChars, MaxIdLen)}

\* Client._make_call: the mode of the Client, the expected_status_code of
\* the callers in the source, and the response that arrived
CallStatuses == {200, 204, 401, 422, 500}
ExpectedCodes == {{200}, {204}, {200, 422}, {200, 204}}
CallInputs ==
    {[type |-> "call", renew_token |-> r, expected |-> e, ret |-> Resp(s, j, EmptyDict)] :
        r \in BOOLEAN, e \in ExpectedCodes, s \in CallStatuses, j \in BOOLEAN}

\* ------------------------------------------------------------------------
\* Revolut.get_account_transactions(to_date=..., from_legid=..., to_legid=...)
\* as a function of the pages the server answers its successive GETs with
\* (an empty page once they are used up). A transaction is its legId and its
\* startedDate; the outcome names the exception raised ("" when the call
\* returns), the raw_transactions collected so far and the 'to' parameter
\* of each GET sent. Timestamps are counted from an epoch of the model's.
\* ------------------------------------------------------------------------
\* previous_timestamp = None; to_date = None, params without 'to'
NoTimestamp == 0

TxOutcome(e, why, st) == [exc |-> e, why |-> why, list |-> st.raw, sent |-> st.sent]

\* the duplicate test without its comparison
HasDupes_Never(raw) == FALSE

\* lines 689-690: len(set(legIds)) != len(raw_transactions)
HasDupes(raw) == Cardinality({raw[i].legId : i \in 1..Len(raw)}) # Len(raw)

\* lines 680-682: from_legid found
TxFound(st) == [st EXCEPT !.from_legid_found = TRUE, !.ask_more = FALSE]

\* lines 672-683: the for loop over one page, from its i-th transaction
RECURSIVE TxFor(_, _, _, _, _)
TxFor(page, i, st, from_legid, to_legid) ==
    IF i > Len(page) \/ ~st.ask_more THEN st
    ELSE LET tx == page[i]
         IN  IF to_legid # None /\ ~st.to_legid_found /\ tx.legId = to_legid
             THEN TxFor(page, i + 1, [st EXCEPT !.process = TRUE, !.to_legid_found = TRUE],
                        from_legid, to_legid)
             ELSE IF from_legid # None /\ ~st.from_legid_found /\ tx.legId = from_legid
             THEN IF to_legid # None /\ ~st.to_legid_found
                  THEN [st EXCEPT !.error = "RuntimeError"]
                  ELSE TxFor(page, i + 1, TxFound(st), from_legid, to_legid)
             ELSE IF st.process
             THEN TxFor(page, i + 1, [st EXCEPT !.raw = Append(st.raw, tx)],
                        from_legid, to_legid)
             ELSE TxFor(page, i + 1, st, from_legid, to_legid)

\* lines 685-694: after the while loop
TxEnd(st, from_legid, to_legid) ==
    IF (Truthy(from_legid) /\ ~st.from_legid_found) \/ (Truthy(to_legid) /\ ~st.to_legid_found)
    THEN TxOutcome("RuntimeError", "not-located", st)
    ELSE IF HasDupes(st.raw)
    THEN TxOutcome("ApiChangedException", "duplicates", st)
    ELSE TxOutcome("", "", st)

\* lines 639-683: the while loop, about to test ask_more before its k-th GET
RECURSIVE TxLoop(_, _, _, _, _, _)
TxLoop(pages, k, st, previous_timestamp, from_legid, to_legid) ==
    IF ~st.ask_more THEN TxEnd(st, from_legid, to_legid)
    ELSE LET page == IF k > Len(pages) THEN <<>> ELSE pages[k]
             st0 == [st EXCEPT !.sent = Append(st.sent, st.to)]
         IN  IF page = <<>> THEN TxEnd(st0, from_legid, to_legid)
             ELSE LET to == page[Len(page)].startedDate
                      st1 == [st0 EXCEPT !.to = to]
                      st2 == TxFor(page, 1, st1, from_legid, to_legid)
                  IN  IF previous_timestamp = to
                      THEN TxOutcome("ApiChangedException", "loop", st1)
                      ELSE IF st2.error # ""
                      THEN TxOutcome(st2.error, "order", st2)
                      ELSE TxLoop(pages, k + 1, st2, to, from_legid, to_legid)

get_account_transactions(pages, to_date, from_legid, to_legid) ==
    LET st == [raw |-> <<>>, process |-> to_legid = None, from_legid_found |-> FALSE,
               to_legid_found |-> FALSE, ask_more |-> TRUE, error |-> "",
               to |-> to_date, sent |-> <<>>]
    IN  IF Truthy(from_legid) /\ Truthy(to_legid) /\ from_legid = to_legid
        THEN TxOutcome("ValueError", "same", st)
        ELSE TxLoop(pages, 1, st, NoTimestamp, from_legid, to_legid)

\* the inputs: up to MaxPages pages of one or two transactions; to_date
\* absent or a timestamp; each leg id absent, the empty string or a leg id
MaxPages == 2
PageLengths == {1, 2}
LegIds == {"a", "b"}
StartedDates == {1, 2}
Txs == [legId : LegIds, startedDate : StartedDates]
TxPages == UNION {[1..n -> Txs] : n \in PageLengths}
TxInputs ==
    {[type |-> "tx", pages |-> ps, to_date |-> d, from_legid |-> f, to_legid |-> o] :
        ps \in UNION {[1..n -> TxPages] : n \in 0..MaxPages},
        d \in StartedDates \cup {NoTimestamp},
        f \in LegIds \cup {None, ""}, o \in LegIds \cup {None, ""}}

\* _write_conf: a conf as Revolut.__init__ leaves it, with the persistedKeys
\* a caller may configure (one names a key conf does not have), with and
\* without a per-account file location, and the file as it was before
PersistedKeyLists ==
    {<<>>, <<"token", "expiry", "device">>, <<"token", "pass">>, <<"pass">>, <<"nokey">>,
     <<"device", "nokey">>, <<"device", "device">>}
WriteConfInputs ==
    {[type |-> "conf",
      cnf |-> DictUpdate(DefaultConf,
                         ("phone" :> Phone) @@ ("pass" :> Password) @@ ("token" :> OldToken)
                         @@ ("expiry" :> e) @@ ("device" :> "uuid4")
                         @@ ("persistedKeys" :> ks) @@ ("accConf" :> ac)),
      file |-> f] :
        e \in ExpiryDates, ks \in PersistedKeyLists, ac \in {None, "acc.config"},
        f \in {EmptyDict, ("pass" :> <<"o", "l", "d">>) @@ ("userAgent" :> "ua")}}

PureInit ==
    /\ InitProgram
    /\ commonFile = EmptyDict /\ accFile = EmptyDict
    /\ pFn = "none" /\ pOut = FALSE
    /\ InitConc
    /\ \/ pIn \in StrInputs
       \/ pIn \in IntInputs
       \/ pIn \in OtherInputs
       \/ pIn \in PairInputs
       \/ pIn \in CallInputs
       \/ pIn \in WriteConfInputs
       \/ pIn \in TxInputs

\* is_valid_2fa_code(code)
CallIsValid2faCode ==
    /\ pFn = "none"
    /\ pIn.type \notin {"pair", "call", "conf", "tx"}
    /\ pFn' = "is_valid_2fa_code"
    /\ pOut' = is_valid_2fa_code_any(pIn)
    /\ UNCHANGED <<program, pIn, conc>>

\* token_encode(f, s)
CallTokenEncode ==
    /\ pFn = "none"
    /\ pIn.type = "pair"
    /\ pFn' = "token_encode"
    /\ pOut' = token_encode(pIn.f, pIn.s)
    /\ UNCHANGED <<program, pIn, conc>>

\* Client(conf, token=True, renew_token=r)._make_call(..., expected, ...)
\* when the session's call returned ret
CallMakeCall ==
    /\ pFn = "none"
    /\ pIn.type = "call"
    /\ pFn' = "_make_call"
    /\ pOut' = _make_call(Client(TokenTrue, pIn.renew_token), _URL_GET_ACCOUNTS,
                          pIn.expected, pIn.ret)
    /\ UNCHANGED <<program, pIn, conc>>

\* _write_conf(conf)
CallWriteConf ==
    /\ pFn = "none"
    /\ pIn.type = "conf"
    /\ pFn' = "_write_conf"
    /\ pOut' = _write_conf(pIn.cnf, pIn.file)
    /\ UNCHANGED <<program, pIn, conc>>

\* get_account_transactions(to_date=..., from_legid=..., to_legid=...)
CallGetAccountTransactions ==
    /\ pFn = "none"
    /\ pIn.type = "tx"
    /\ pFn' = "get_account_transactions"
    /\ pOut' = get_account_transactions(pIn.pages, pIn.to_date, pIn.from_legid, pIn.to_legid)
    /\ UNCHANGED <<program, pIn, conc>>

PureNext ==
    \/ CallIsValid2faCode
    \/ CallTokenEncode
    \/ CallMakeCall
    \/ CallWriteConf
    \/ CallGetAccountTransactions

PureSpec == PureInit /\ [][PureNext]_vars

\* ------------------------------------------------------------------------
\* Two business calls of one Revolut object, each on a thread of its own
\* ------------------------------------------------------------------------
\* Nothing in Client or in renew_token takes a lock: between any two
\* statements of one thread the other thread may run. conf is the dict the
\* two threads share. Each thread sends its request, on a token-expired
\* answer runs renew_token statement by statement and sends the request
\* again.
Threads == {1, 2}
Other(i) == CHOOSE j \in Threads : j # i

\* the constructor arguments of the Revolut object the threads share
ConcArgs ==
    [device_id |-> None, token |-> NoToken, password |-> None, phone |-> None,
     channel |-> None, provider_2fa |-> FALSE, interactive |-> FALSE, typed |-> Phone]

\* what the server answers to a complete login: every login gets a token
\* and an expiry of its own
FreshPayloads ==
    {MkPayload(RequiredKeys, "id" :> <<"u">>, <<"a">>, 3000, <<"x">>),
     MkPayload(RequiredKeys, "id" :> <<"u">>, <<"b">>, 5001, <<"x">>)}

\* the token and expiry pairs that come from one login: the cached one of
\* the account file, and the one of each payload
Logins ==
    {<<OldToken, e>> : e \in ExpiryDates}
        \cup {<<extract_token(r), r["tokenExpiryDate"]>> : r \in FreshPayloads}

\* renew_token without its line 243
SetExpiry_Skipped(cnf, r) == cnf

\* renew_token line 243
SetExpiry(cnf, r) == DictSet(cnf, "expiry", r["tokenExpiryDate"])

ThreadAt(i, p, r) == thr' = [thr EXCEPT ![i] = [pc |-> p, r |-> r]]
Busy(i) == thr[i].pc \notin {"idle", "done"}
ThreadFrame(i) ==
    /\ overlapped' = (overlapped \/ Busy(Other(i)))
    /\ UNCHANGED <<commonFile, now, ops, ctl, login, session, bcObs, rnObs, s2Obs,
                   initInfo, gtAux, rnBefore, pure>>
\* conf as a request or _write_conf finds it
At(kind) == point' = [kind |-> kind, token |-> conf["token"], expiry |-> conf["expiry"]]

\* Client._make_call of the business request, first or re-issued, and what
\* the wrapper of line 319 does with its outcome
ThreadSend(i, ret) ==
    /\ thr[i].pc \in {"idle", "retry"}
    /\ lastReq' = Request(RevolutClient, conf, _URL_GET_ACCOUNTS, FALSE)
    /\ At("send")
    /\ LET o == _make_call(RevolutClient, _URL_GET_ACCOUNTS, {200}, ret)
       IN  IF thr[i].pc = "idle" /\ o.type = "TokenExpiredException"
           THEN ThreadAt(i, "renew", EmptyDict)
           ELSE ThreadAt(i, "done", EmptyDict)
    /\ ThreadFrame(i)
    /\ UNCHANGED <<conf, accFile>>

\* renew_token line 241: get_token sends the requests of a login and
\* returns the token and expiry of the payload r
ThreadGetToken(i, r) ==
    /\ thr[i].pc = "renew"
    /\ get_token_tail(r) = Ok
    /\ lastReq' = Request(LoginClient, conf, _URL_GET_TOKEN_STEP2_APP, FALSE)
    /\ At("send")
    /\ ThreadAt(i, "set_token", r)
    /\ ThreadFrame(i)
    /\ UNCHANGED <<conf, accFile>>

\* renew_token line 242
ThreadSetToken(i) ==
    /\ thr[i].pc = "set_token"
    /\ conf' = DictSet(conf, "token", extract_token(thr[i].r))
    /\ ThreadAt(i, "set_expiry", thr[i].r)
    /\ ThreadFrame(i)
    /\ UNCHANGED <<accFile, lastReq, point>>

\* renew_token line 243
ThreadSetExpiry(i) ==
    /\ thr[i].pc = "set_expiry"
    /\ conf' = SetExpiry(conf, thr[i].r)
    /\ ThreadAt(i, "write", EmptyDict)
    /\ ThreadFrame(i)
    /\ UNCHANGED <<accFile, lastReq, point>>

\* renew_token lines 245-246, back in the wrapper of the business call
ThreadWriteConf(i) ==
    /\ thr[i].pc = "write"
    /\ accFile' = _write_conf(conf, accFile)
    /\ At("persist")
    /\ ThreadAt(i, "retry", EmptyDict)
    /\ ThreadFrame(i)
    /\ UNCHANGED <<conf, lastReq>>

ConcInit ==
    /\ commonFile \in CommonFiles \ {EmptyDict}
    /\ accFile \in AccFiles \ {EmptyDict}
    /\ conf = InitConf(ConcArgs).conf
    /\ pc = "idle"
    /\ InitIdle
    /\ pFn = "none" /\ pIn = <<>> /\ pOut = FALSE
    /\ thr = [i \in Threads |-> NoThread] /\ point = NoPoint /\ overlapped = FALSE

ConcNext ==
    \/ \E i \in Threads, ret \in BusinessResponses : ThreadSend(i, ret)
    \/ \E i \in Threads, r \in FreshPayloads : ThreadGetToken(i, r)
    \/ \E i \in Threads : ThreadSetToken(i)
    \/ \E i \in Threads : ThreadSetExpiry(i)
    \/ \E i \in Threads : ThreadWriteConf(i)

ConcSpec == ConcInit /\ [][ConcNext]_vars

\* ------------------------------------------------------------------------
\* Properties
\* ------------------------------------------------------------------------
\* the login steps after step 1
AfterStep1 == {"s2_code", "s2_confirm", "s2_post", "gt_after2", "s3_selfie", "s3_post"}

\* C1: a business call whose first request is answered token-expired and
\* whose re-issued request is answered with an expected status has
\* succeeded, after exactly one renew_token invocation and exactly two
\* requests.
C1_OneRenewalOneRetry ==
    (Len(bcLog) >= 2 /\ bcLog[1] = "expired" /\ bcLog[2] = "ok")
        => /\ Len(bcLog) = 2
           /\ bcRenews = 1
           /\ pc = "idle"
           /\ result = Ok
C1_Witness ==
    /\ bcLog = <<"expired", "ok">> /\ bcRenews = 1
    /\ pc = "idle" /\ result = Ok
    /\ renewCaller = "call" /\ rnGetTokens = 1

\* C2: a business call never starts more than one renew_token invocation
\* and never sends more than two requests; when the request re-issued
\* after the renewal is answered token-expired again, the call ends with
\* TokenExpiredException.
C2_SecondExpiryFatal ==
    /\ bcRenews <= 1
    /\ Len(bcLog) <= 2
    /\ bcLog = <<"expired", "expired">>
        => \/ pc = "bc_exc" /\ exc.type = "TokenExpiredException" /\ bcTries = 1
           \/ pc = "idle" /\ result.type = "TokenExpiredException"
C2_Witness ==
    /\ bcLog = <<"expired", "expired">> /\ bcRenews = 1
    /\ pc = "idle" /\ result.type = "TokenExpiredException"

\* C3, as the specification states it: when the first POST to /signin of a
\* renew_token invocation is rejected, that invocation sends no other POST
\* to /signin and never goes on to step 2.
C3_NoRetryAfterRejection ==
    rnRejectedAt = 1 => (rnSignin = 1 /\ pc \notin AfterStep1)

\* C4, as the specification states it: a business request answered with
\* an unexpected status (not a token-expired 401) is not issued again.
C4_UnexpectedStatusNotReissued ==
    (Len(bcLog) >= 1 /\ bcLog[1] = "unexpected") => Len(bcLog) = 1

\* C5, as the specification states it: renew_token runs get_token a second
\* time only after a transient connectivity failure, that is a transport
\* error or an unexpected status at a request other than POST /signin;
\* never after an unexpected 422 code nor after a rejection by /signin.
C5_RerunOnlyAfterTransientFailure ==
    rnGetTokens >= 2
        => \/ rnRetryCause.type = "RequestException"
           \/ /\ rnRetryCause.why = "status"
              /\ rnRetryCause.url # _URL_GET_TOKEN_STEP1

\* C6: one renew_token invocation runs get_token at most 2 times.
C6_AtMostTwoLoginRuns == rnGetTokens <= 2
C6_Witness ==
    /\ rnGetTokens = 2
    /\ pc \in {"idle", "dead"}
    /\ result.type = "ConnectionError"

\* C7, as the specification states it: a renew_token invocation that
\* directly follows a successful one, with the token it cached still
\* valid, sends no request.
C7_IdempotentOnValidToken == rnIdem => ~rnNet

\* C8, as the specification states it: when Revolut.__init__ reaches its
\* token step, it calls renew_token exactly when no token is cached or the
\* cached expiry is at most 5 seconds after now.
C8_RenewalIffStale ==
    initInfo.reached
        => (initInfo.renewed <=> (~initInfo.cached \/ initInfo.delta <= 5000))

\* C8, amended: when Revolut.__init__ reaches its token step, it calls
\* renew_token exactly when no token string was passed as argument and
\* either no token is cached or the cached expiry is at most 5 seconds
\* after now; without that call no login request is sent.
C8_RenewalIffStaleAndNoTokenArg ==
    initInfo.reached
        => /\ initInfo.renewed
                <=> /\ ~initInfo.tokenArg
                    /\ (~initInfo.cached \/ initInfo.delta <= 5000)
           /\ initInfo.renewed => renewCaller = "init"
           /\ ~initInfo.renewed => (pc = "idle" /\ ~rnNet /\ lastReq = NoRequest)
C8_Witness ==
    /\ initInfo.reached /\ initInfo.renewed
    /\ initInfo.cached /\ initInfo.delta = 3000
    /\ pc = "step1" /\ renewCaller = "init"

\* C9, as the specification states it: a step 2 whose server answers N
\* times 422/pending and then 200 is over only by returning the body of
\* that 200, after exactly N+1 POSTs to /token.
C9_CompletesAfterNPlusOne ==
    (s2Script # NoScript /\ pc # "s2_post")
        => (pc = "gt_after2" /\ s2Posts = s2Script + 1 /\ response = s2Body)

\* C9, amended: for N <= 50 a step 2 whose server answers N times
\* 422/pending and then 200 is over only by returning the body of that 200,
\* after exactly N+1 POSTs to /token; for N > 50 it is over only by the
\* RuntimeError of the poll cap, after 51 POSTs.
C9_CompletesAfterNPlusOneUpToCap ==
    (s2Script # NoScript /\ pc # "s2_post")
        => IF s2Script <= 50
           THEN pc = "gt_after2" /\ s2Posts = s2Script + 1 /\ response = s2Body
           ELSE /\ pc = "rn_exc" /\ exc = Exc("RuntimeError", "timeout", "", 0)
                /\ s2Posts = 51
C9_Witness ==
    /\ s2Script = 50 /\ pc = "gt_after2"
    /\ s2Posts = 51 /\ response = s2Body /\ s2Body # EmptyDict

\* C10, as the specification states it: after a 422 poll answer with a
\* code other than 9035, the same renew_token invocation sends no further
\* POST to /token.
C10_NoPollAfterViolation == ~violPosts

\* C11, as the specification states it: a step 2 whose polls are all
\* answered 422/pending sends at most 50 POSTs to /token.
C11_AtMostFiftyPolls ==
    (s2Script # NoScript /\ s2Posts <= s2Script) => s2Posts <= 50

\* C11, amended: a step 2 whose polls are all answered 422/pending sends
\* at most 51 POSTs to /token (count = 0..50), and it fails with the
\* RuntimeError of the poll cap exactly after the 51st.
C11_AtMostFiftyOnePolls ==
    (s2Script # NoScript /\ s2Posts <= s2Script)
        => /\ s2Posts <= 51
           /\ (pc = "s2_post" => (count = s2Posts /\ count <= 50))
           /\ (pc = "rn_exc" => (exc = Timeout /\ s2Posts = 51))
C11_Witness ==
    /\ s2Script = 51 /\ s2Posts = 51
    /\ pc = "rn_exc" /\ exc = Timeout

\* C12, as the specification states it: a step 3 whose confirmation polls
\* are all answered 204 sends at most 50 of them.
C12_AtMostFiftyBioPolls ==
    (s3Script # NoScript /\ s3Posts <= s3Script) => s3Posts <= 50

\* C12, amended: signin_biometric polls again after every 204 and stops at
\* the first 200, whose JSON is the payload get_token validates and installs;
\* when only 204 arrive it sends 51 polls (count = 0..50) and then fails
\* with the RuntimeError of the poll cap.
C12_BioPollsUntil200OrFiftyOne ==
    s3Script # NoScript =>
        /\ s3Posts <= 51
        /\ (pc = "s3_post" => (count = s3Posts /\ count <= 50 /\ s3Posts <= s3Script))
        /\ (finalSrc = "step3"
                => /\ s3Posts = s3Script + 1
                   /\ IF validate_token_response(s3Body)
                      THEN MissingKey \in {exc, result} /\ conf = rnBefore
                      ELSE result = Ok /\ conf = Installed(conf, s3Body))
        /\ (pc # "s3_post" /\ finalSrc # "step3"
                => s3Script = 51 /\ s3Posts = 51 /\ Timeout \in {exc, result})
C12_Witness ==
    /\ s3Script = 51 /\ s3Posts = 51
    /\ pc = "rn_exc" /\ exc = Timeout

\* C13, as the specification states it: the exception of an exhausted poll
\* loop (APP step 2 or biometric step 3) is of another kind than the
\* exceptions of a contract violation, i.e. of an unexpected code in a 422
\* answer and of a required field missing from the final payload.
C13_TimeoutKindDistinct ==
    (pc = "rn_exc" /\ exc.why = "timeout")
        => exc.type \notin {UnexpectedCode.type, MissingKey.type}

\* the payload get_token handed to validate_token_response
FinalPayload == IF finalSrc = "step2" THEN step2Resp ELSE s3Body

\* C14: when the final login payload (the answer of step 2 without a
\* third-factor token, the answer of step 3 with one) lacks user.id,
\* accessToken or tokenExpiryDate, get_token raises the RuntimeError of
\* validate_token_response, renew_token does not retry, and conf keeps the
\* token and expiry it had; conf changes only to the token and expiry of a
\* payload that has all three.
C14_MissingFieldInstallsNothing ==
    /\ (finalSrc # "none" /\ validate_token_response(FinalPayload))
            => /\ MissingKey \in {exc, result}
               /\ pc \in {"rn_exc", "idle", "dead"}
               /\ conf = rnBefore
               /\ ~lastRenewOk
    /\ rnBefore # EmptyDict => conf = rnBefore
    /\ (finalSrc # "none" /\ ~validate_token_response(FinalPayload))
            => /\ rnBefore = EmptyDict
               /\ conf = Installed(conf, FinalPayload)
    /\ rnRetryCause # MissingKey
    /\ exc.type # "KeyError" \/ exc.why \notin {"tokenExpiryDate", "token"}
C14_Witness ==
    /\ finalSrc = "step3"
    /\ {"user", "tokenExpiryDate"} \subseteq DOMAIN s3Body
    /\ "accessToken" \notin DOMAIN s3Body
    /\ pc = "rn_exc" /\ exc = MissingKey
    /\ conf = rnBefore

\* the three POSTs of lines 146-153: payload and expected status
ConfirmSequence(cnf, code) ==
    LET d1 == ("phone" :> cnf["phone"]) @@ ("code" :> code)
        d2 == DictSet(d1, "password", cnf["pass"])
        d3 == DictSet(d2, "limitedAccess", FALSE)
    IN  << [json |-> d1, expected |-> {204}],
           [json |-> d2, expected |-> {204}],
           [json |-> d3, expected |-> {200}] >>

\* C15, as the specification states it: a step 2 over EMAIL or SMS that
\* returns has sent exactly three POSTs to /signin/confirm: phone and code
\* expecting 204, then with the password expecting 204, then with
\* limitedAccess = false expecting 200.
C15_ExactlyThreeConfirmPosts ==
    (pc = "gt_after2" /\ conf["channel"] \in {"EMAIL", "SMS"})
        => /\ s2cPosts = 3
           /\ \E code \in CodeInputs : s2cLog = ConfirmSequence(conf, code)

\* what does hold of C15: the POSTs, a re-issued one counted once, are a
\* prefix of the three in their order, the next one is sent only when the
\* one before was answered as expected, and each is sent at most twice.
C15_ConfirmPostsInOrder ==
    (pc \in {"s2_confirm", "gt_after2"} /\ conf["channel"] \in {"EMAIL", "SMS"})
        => /\ \E code \in CodeInputs :
                  s2cLog = SubSeq(ConfirmSequence(conf, code), 1, Len(s2cLog))
           /\ Len(s2cLog) <= s2cPosts /\ s2cPosts <= 2 * Len(s2cLog)
           /\ pc = "gt_after2" => Len(s2cLog) = 3
           /\ pc = "s2_confirm" =>
                  Len(s2cLog) = IF lpTries = CallTries THEN confirmIdx - 1 ELSE confirmIdx

\* C16: when the code of the automated provider fails is_valid_2fa_code,
\* get_token raises ValueError with no POST to /signin/confirm sent (the
\* last request is the POST /signin of step 1), renew_token never runs
\* get_token again because of it, and a code that is posted is six digits.
C16_InvalidProviderCodeFatal ==
    /\ (pc = "rn_exc" /\ exc.type = "ValueError")
            => /\ conf["2FAProvider"]
               /\ s2cPosts = 0 /\ s2cLog = <<>> /\ data = EmptyDict
               /\ lastReq.url = _URL_GET_TOKEN_STEP1
    /\ rnRetryCause.type # "ValueError"
    /\ s2cPosts > 0
            => /\ Len(data["code"]) = 6
               /\ \A i \in 1..6 : data["code"][i] \in Digits
C16_Witness ==
    /\ pc = "rn_exc" /\ exc.type = "ValueError"
    /\ rnTries = RenewTries
    /\ s2cPosts = 0 /\ lastReq.url = _URL_GET_TOKEN_STEP1

\* C17: of a string, is_valid_2fa_code is true exactly when the string is
\* six characters long and each of them is one of 0..9.
C17_StringValidIffSixDigits ==
    (pFn = "is_valid_2fa_code" /\ pIn.type = "str")
        => (pOut <=> (/\ Len(pIn.val) = 6
                      /\ {pIn.val[i] : i \in 1..Len(pIn.val)} \subseteq Digits))
C17_Witness ==
    /\ pFn = "is_valid_2fa_code" /\ pIn.type = "str"
    /\ pIn.val = << "0", "7", "7", "0", "0", "7" >>
    /\ pOut = TRUE

\* C18, as the specification states it: of an integer, negative ones
\* included, is_valid_2fa_code is true only if the decimal representation
\* of the integer has exactly six digits.
C18_IntValidOnlyIfSixDigits ==
    (pFn = "is_valid_2fa_code" /\ pIn.type = "int" /\ pOut)
        => Len(NatStr(IF pIn.val < 0 THEN 0 - pIn.val ELSE pIn.val)) = 6

\* the decoder the round trip of C19 is stated with: base64 decoding, ASCII
\* decoding, and the split at the first ":"
B64Val(c) == CHOOSE n \in 0..63 : B64Alphabet[n + 1] = c
RECURSIVE b64decode(_)
b64decode(chars) ==
    IF Len(chars) < 4 THEN <<>>
    ELSE LET v1 == B64Val(chars[1])
             v2 == B64Val(chars[2])
         IN  IF chars[3] = "="
             THEN << v1 * 4 + v2 \div 16 >>
             ELSE IF chars[4] = "="
             THEN << v1 * 4 + v2 \div 16, (v2 % 16) * 16 + B64Val(chars[3]) \div 4 >>
             ELSE << v1 * 4 + v2 \div 16,
                     (v2 % 16) * 16 + B64Val(chars[3]) \div 4,
                     (B64Val(chars[3]) % 4) * 64 + B64Val(chars[4]) >>
                  \o b64decode(SubSeq(chars, 5, Len(chars)))
AsciiChar(n) == CHOOSE c \in DOMAIN Ascii : Ascii[c] = n
token_decode(token) ==
    LET bytes == b64decode(token)
        text == [i \in 1..Len(bytes) |-> AsciiChar(bytes[i])]
        seps == {i \in 1..Len(text) : text[i] = ":"}
    IN  IF seps = {} THEN << text, <<>> >>
        ELSE LET i == CHOOSE j \in seps : \A k \in seps : j <= k
             IN  << SubSeq(text, 1, i - 1), SubSeq(text, i + 1, Len(text)) >>
HasColon(f) == \E i \in 1..Len(f) : f[i] = ":"

\* C19, as the specification states it: for every pair (userId,
\* accessToken) decoding token_encode(userId, accessToken) gives the pair
\* back, and no other pair has the same token.
C19_RoundTripEveryPair ==
    pFn = "token_encode"
        => /\ token_decode(pOut) = << pIn.f, pIn.s >>
           /\ \A q \in PairInputs : token_encode(q.f, q.s) = pOut => q = pIn

\* C19, amended: for every pair of ASCII strings whose userId holds no
\* ":", decoding token_encode(userId, accessToken) and splitting at the
\* first ":" gives the pair back, and no other such pair has the same token.
C19_RoundTripColonFreeUserId ==
    (pFn = "token_encode" /\ ~HasColon(pIn.f))
        => /\ token_decode(pOut) = << pIn.f, pIn.s >>
           /\ \A q \in PairInputs :
                  (~HasColon(q.f) /\ token_encode(q.f, q.s) = pOut) => q = pIn
C19_Witness ==
    /\ pFn = "token_encode"
    /\ pIn.f = << "a", "a" >> /\ pIn.s = << ":", "a" >>
    /\ token_decode(pOut) = << pIn.f, pIn.s >>

\* C20: a request of step 3 (selfie upload, confirmation poll) is sent only
\* when the payload step 2 returned holds thirdFactorAuthAccessToken;
\* without it get_token sends none and validates the payload of step 2
\* itself: a required field missing from it is the RuntimeError of
\* validate_token_response, otherwise its token and expiry are installed.
C20_Step3OnlyWithThirdFactorToken ==
    /\ (s3Sent \/ pc \in {"s3_selfie", "s3_post"} \/ finalSrc = "step3")
            => _3FAT \in DOMAIN step2Resp
    /\ (step2Resp # EmptyDict /\ _3FAT \notin DOMAIN step2Resp)
            => /\ ~s3Sent
               /\ IF pc = "gt_after2"
                  THEN response = step2Resp /\ finalSrc = "none"
                  ELSE /\ finalSrc = "step2"
                       /\ IF validate_token_response(step2Resp)
                          THEN MissingKey \in {exc, result} /\ conf = rnBefore
                          ELSE exc = NoExc /\ conf = Installed(conf, step2Resp)
C20_Witness ==
    /\ step2Resp # EmptyDict /\ _3FAT \notin DOMAIN step2Resp
    /\ finalSrc = "step2" /\ ~s3Sent
    /\ pc = "idle" /\ result = Ok
    /\ conf["token"] = extract_token(step2Resp)

\* the requests of step 3
Step3Urls == {_URL_SELFIE, _URL_3FA_CONFIRM_TMPLT}

\* C21: every request of step 3 (selfie upload, confirmation poll) carries
\* as bearer token token_encode(userId, thirdFactorAuthAccessToken) of the
\* payload of step 2, whatever token conf holds.
C21_Step3BearerIsThirdFactorToken ==
    s3Sent
        => /\ lastReq.url \in Step3Urls
           /\ "x-api-authorization" \in DOMAIN lastReq.headers
           /\ lastReq.headers["x-api-authorization"]
                  = token_encode(step2Resp["user"]["id"], step2Resp[_3FAT])
C21_Witness ==
    /\ s3Sent /\ pc = "s3_post" /\ count = 1
    /\ lastReq.url = _URL_3FA_CONFIRM_TMPLT
    /\ conf["token"] = OldToken
    /\ lastReq.headers["x-api-authorization"] # conf["token"]

\* the requests of steps 1 and 2
LoginUrls == {_URL_GET_TOKEN_STEP1, _URL_GET_TOKEN_STEP2, _URL_GET_TOKEN_STEP2_APP}

\* C22: a request carries the x-api-authorization header exactly when the
\* Client that sends it has auth set: the requests of steps 1 and 2 (a
\* Client without token) never carry it, whatever token conf holds; the
\* requests of step 3 and the business requests of the Revolut client
\* carry it, the latter with the token of conf.
C22_BearerIffAuthenticated ==
    /\ lastReq.url \in LoginUrls
            => "x-api-authorization" \notin DOMAIN lastReq.headers
    /\ lastReq.url \in Step3Urls
            => "x-api-authorization" \in DOMAIN lastReq.headers
    /\ lastReq.url = _URL_GET_ACCOUNTS
            => /\ "x-api-authorization" \in DOMAIN lastReq.headers
               /\ lastReq.headers["x-api-authorization"] = conf["token"]
               /\ conf["token"] # NoToken
    /\ lastReq = NoRequest \/ lastReq.url \in LoginUrls \cup Step3Urls \cup {_URL_GET_ACCOUNTS}
C22_Witness ==
    /\ lastReq.url = _URL_GET_TOKEN_STEP2_APP
    /\ conf["token"] = OldToken
    /\ "x-api-authorization" \notin DOMAIN lastReq.headers

\* C23: a request is sent without Content-Type exactly when it is
\* multipart; on the Client of step 3 the confirmation polls that follow
\* the multipart selfie upload carry Content-Type again.
C23_NoContentTypeIffMultipart ==
    /\ lastReq # NoRequest
            => (lastReq.files <=> "Content-Type" \notin DOMAIN lastReq.headers)
    /\ lastReq.files <=> (lastReq.url = _URL_SELFIE)
    /\ pc = "s3_post" => session = lastReq.headers
C23_Witness ==
    /\ pc = "s3_post" /\ count = 1
    /\ lastReq.url = _URL_3FA_CONFIRM_TMPLT /\ ~lastReq.files
    /\ "Content-Type" \in DOMAIN lastReq.headers

\* C24 (as stated): _make_call returns the response when its status is
\* expected, raises TokenExpiredException when the status is unexpected, is
\* 401 and the Client renews on expiry, and raises ConnectionError
\* otherwise.
C24_Unexpected401AlwaysTokenExpired ==
    pFn = "_make_call" =>
        pOut.type = IF pIn.ret.status \in pIn.expected THEN "ok"
                    ELSE IF pIn.ret.status = 401 /\ pIn.renew_token
                         THEN "TokenExpiredException"
                         ELSE "ConnectionError"

\* C24 (amended): exactly one of the three outcomes; TokenExpiredException
\* exactly when the status is unexpected, is 401, the body parses as JSON
\* and the Client renews on expiry. A 401 whose body is not JSON raises
\* ConnectionError, and a Client that does not renew never raises
\* TokenExpiredException.
C24_ClassifiesEveryResponse ==
    pFn = "_make_call" =>
        /\ pOut.type \in {"ok", "TokenExpiredException", "ConnectionError"}
        /\ pOut.type = "ok" <=> pIn.ret.status \in pIn.expected
        /\ pOut.type = "TokenExpiredException"
                <=> /\ pIn.ret.status \notin pIn.expected
                    /\ pIn.ret.status = 401
                    /\ pIn.ret.json
                    /\ pIn.renew_token
        /\ pOut.type = "ConnectionError" => pOut.status = pIn.ret.status
C24_Witness ==
    /\ pFn = "_make_call"
    /\ pIn.renew_token /\ pIn.ret.status = 401 /\ pIn.ret.json
    /\ pIn.expected = {200, 422}
    /\ pOut.type = "TokenExpiredException"

\* the positions inside renew_token (its get_token, and its retry wrapper)
InRenewToken ==
    pc \in {"step1", "s2_code", "s2_confirm", "s2_post", "gt_after2", "s3_selfie",
            "s3_post", "rn_exc"}

\* C25: once Revolut.__init__ has built the credentials, a step changes
\* them only inside renew_token, and then only the token and expiry
\* fields: every other field (phone, pass, channel, device, ...) keeps its
\* value and no field is added or removed.
C25_OnlyRenewTokenWritesTokenAndExpiry ==
    [][pc # "start" =>
          /\ conf' # conf => InRenewToken
          /\ DOMAIN conf' = DOMAIN conf
          /\ \A k \in DOMAIN conf \ {"token", "expiry"} : conf'[k] = conf[k]]_vars
C25_Witness ==
    /\ pc = "bc_send" /\ bcRenews = 1
    /\ conf["token"] \notin {NoToken, OldToken}
    /\ conf["device"] = "uuid4" /\ conf["phone"] = Phone /\ conf["pass"] = Password

\* the step on which renew_token returns its token
RenewTokenReturns == InRenewToken /\ (lastRenewOk' \/ (renewCaller = "call" /\ pc' = "bc_send"))

\* C26: renew_token calls _write_conf on no path but its return, exactly
\* once there, and with the new token and expiry already in conf: the
\* token and the expiry of the per-account file equal those of conf
\* whenever persistedKeys names them.
C26_InstallThenPersistOnce ==
    [][/\ InRenewToken => writes = 0
       /\ InRenewToken' => writes' = 0
       /\ RenewTokenReturns =>
              /\ writes' = 1
              /\ conf' = Installed(conf, FinalPayload')
              /\ \A k \in {"token", "expiry"} :
                     (\E i \in 1..Len(conf'["persistedKeys"]) : conf'["persistedKeys"][i] = k)
                         => k \in DOMAIN accFile' /\ accFile'[k] = conf'[k]]_vars
C26_Witness ==
    /\ lastRenewOk /\ writes = 1
    /\ conf["token"] \notin {NoToken, OldToken}
    /\ "token" \in DOMAIN accFile /\ accFile["token"] = conf["token"]
    /\ "expiry" \in DOMAIN accFile /\ accFile["expiry"] = conf["expiry"]

\* the keys persistedKeys names
PersistedKeySet(cnf) == {cnf["persistedKeys"][i] : i \in 1..Len(cnf["persistedKeys"])}
\* _write_conf lines 252-259 reach the write
WritesFile(cnf) == cnf["accConf"] # None /\ PersistedKeySet(cnf) \cap DOMAIN cnf # {}

\* C27: the file _write_conf writes holds exactly the fields of conf that
\* persistedKeys names, with the values of conf, whatever the file held
\* before; it holds the password only if persistedKeys names 'pass'. When
\* _write_conf writes nothing the file stays as it was.
C27_FileIsExactlyPersistedKeys ==
    pFn = "_write_conf" =>
        IF WritesFile(pIn.cnf)
        THEN /\ DOMAIN pOut = PersistedKeySet(pIn.cnf) \cap DOMAIN pIn.cnf
             /\ \A k \in DOMAIN pOut : pOut[k] = pIn.cnf[k]
             /\ "pass" \in DOMAIN pOut => "pass" \in PersistedKeySet(pIn.cnf)
        ELSE pOut = pIn.file
C27_Witness ==
    /\ pFn = "_write_conf"
    /\ pIn.cnf["persistedKeys"] = <<"device", "nokey">>
    /\ "pass" \in DOMAIN pIn.file
    /\ pOut = ("device" :> "uuid4")

\* C28: whenever the client has sent a request, the phone and the password
\* of the credentials are non-empty.
C28_NoRequestWithoutPhoneAndPassword ==
    lastReq # NoRequest => Truthy(conf["phone"]) /\ Truthy(conf["pass"])

\* two transactions of the list have the same legId
DuplicateLegId(l) == \E i, j \in 1..Len(l) : i # j /\ l[i].legId = l[j].legId

C30_ReissuedRequestCarriesNewToken ==
    [][(pc = "bc_send" /\ bcRenews = 1 /\ pc' # "bc_send") =>
          /\ Len(bcLog) = 1 /\ bcLog[1] = "expired"
          /\ lastReq'.url = _URL_GET_ACCOUNTS
          /\ conf = Installed(conf, FinalPayload)
          /\ lastReq'.headers["x-api-authorization"] = conf["token"]
          /\ conf["token"] # bcFirst => lastReq'.headers["x-api-authorization"] # bcFirst]_vars
C30_Witness ==
    /\ bcLog = <<"expired", "ok">> /\ bcRenews = 1
    /\ bcFirst = OldToken
    /\ lastReq.url = _URL_GET_ACCOUNTS
    /\ lastReq.headers["x-api-authorization"] = conf["token"]
    /\ conf["token"] # OldToken

\* a renew_token invocation is running, or the last one raised
RenewNotReturned == rnBefore # EmptyDict /\ (InRenewToken \/ pc \in {"idle", "dead"})

\* C31: while renew_token runs, and after it raised at whichever step (step
\* 1, step 2, the biometric step, the final validation), conf holds the
\* token and the expiry it held when the invocation began and _write_conf
\* was not called; the invocation ends with the exception as its result.
C31_FailedRenewalKeepsCredentials ==
    RenewNotReturned =>
        /\ conf["token"] = rnBefore["token"]
        /\ conf["expiry"] = rnBefore["expiry"]
        /\ writes = 0
        /\ pc \in {"idle", "dead"} => result.type \in ExceptionClass /\ ~lastRenewOk
C31_Witness ==
    /\ pc = "idle" /\ renewCaller = "direct"
    /\ finalSrc = "step3" /\ validate_token_response(s3Body)
    /\ "tokenExpiryDate" \in DOMAIN s3Body
    /\ result = MissingKey
    /\ conf["token"] = OldToken /\ conf["expiry"] = rnBefore["expiry"] /\ writes = 0

\* C32: when the renew_token started by the TokenExpiredException of a
\* business request has raised, the business call is over with that
\* exception as its result, and its request was sent once only: the last
\* request on the wire is one of the login. A second business request is
\* sent only after a renew_token that returned.
C32_FailedRenewalEndsTheCall ==
    /\ (renewCaller = "call" /\ rnBefore # EmptyDict /\ ~InRenewToken)
            => /\ pc = "idle"
               /\ bcLog = <<"expired">> /\ bcRenews = 1
               /\ result.type \in ExceptionClass \ {"TokenExpiredException"}
               /\ lastReq.url \in LoginUrls \cup Step3Urls
    /\ (Len(bcLog) = 2 /\ bcRenews = 1) => rnBefore = EmptyDict
C32_Witness ==
    /\ renewCaller = "call" /\ pc = "idle" /\ bcLog = <<"expired">>
    /\ result.type = "ConnectionError" /\ result.url = _URL_GET_TOKEN_STEP1
    /\ lastReq.url = _URL_GET_TOKEN_STEP1
    /\ rnBefore # EmptyDict /\ conf = rnBefore

\* C33: no login request ends in TokenExpiredException, so the retry
\* wrapper of a login request never runs the renew_token callback while a
\* renew_token is in progress: the Client of step 3 does not renew on
\* expiry, and neither the pending exception of a login, nor the one its
\* re-run followed, nor the exception a renew_token ended with is a
\* TokenExpiredException; a 401 on a login request is a ConnectionError.
C33_RenewalNeverReentered ==
    /\ pc # "nested_renew"
    /\ ~bioClient.renew_token
    /\ InRenewToken => exc.type # "TokenExpiredException"
    /\ rnRetryCause.type # "TokenExpiredException"
    /\ (rnBefore # EmptyDict /\ pc \in {"idle", "dead"})
            => result.type # "TokenExpiredException"
    /\ (InRenewToken /\ exc.status = 401) => exc.type = "ConnectionError"
C33_Witness ==
    /\ pc = "rn_exc" /\ exc.type = "ConnectionError" /\ exc.status = 401
    /\ exc.url = _URL_SELFIE /\ bioClient = NoClient
    /\ lastReq.url = _URL_SELFIE /\ "x-api-authorization" \in DOMAIN lastReq.headers

\* C34: in non-interactive mode a renew_token in progress ends, returning
\* or raising, whatever the server answers, and so does a business call in
\* progress.
C34_RenewalAndCallTerminate ==
    /\ (InRenewToken /\ ~conf["interactive"]) ~> ~InRenewToken
    /\ (pc \in {"bc_send", "bc_exc"} /\ ~conf["interactive"]) ~> (pc = "idle")
C34_Witness ==
    /\ pc = "idle" /\ result = Timeout /\ ~conf["interactive"]
    /\ renewCaller = "direct" /\ rnNet /\ lastReq.url = _URL_3FA_CONFIRM_TMPLT

\* C35: no POST /signin is sent by a non-interactive client whose
\* effective channel is EMAIL or SMS and that has no 2FA provider.
C35_NoSigninWithoutProvider ==
    lastReq.url = _URL_GET_TOKEN_STEP1
        => ~(/\ ~conf["interactive"]
             /\ conf["channel"] \in {"EMAIL", "SMS"}
             /\ ~conf["2FAProvider"])

\* C36: the exception the APP poll loop raises for a 422 answer is of the
\* same type (that of UnexpectedCode) whether the body has a code other
\* than 9035 or no 'code' field at all.
C36_MissingCodeSameKind ==
    (pc = "rn_exc" /\ exc.why = "code") => exc.type = UnexpectedCode.type

\* C37: a construction that was given a token string ends without having
\* started renew_token or sent any request, and conf holds the given
\* token, whether or not the account file held a token and whatever its
\* expiry.
C37_TokenArgumentInstalledWithoutLogin ==
    (initInfo.reached /\ initInfo.tokenArg)
        => /\ ~initInfo.renewed
           /\ pc = "idle" /\ result = Ok
           /\ conf["token"] = ArgToken
           /\ lastReq = NoRequest /\ ~rnNet /\ rnGetTokens = 0
C37_Witness ==
    /\ initInfo.reached /\ initInfo.tokenArg /\ initInfo.cached
    /\ initInfo.delta <= SafetyMarginMs
    /\ accFile # EmptyDict /\ accFile["token"] = OldToken
    /\ conf["token"] = ArgToken /\ lastReq = NoRequest

LastStarted(page) == page[Len(page)].startedDate

\* C39: no two successive GETs of get_account_transactions carry the same
\* 'to'; no GET follows an empty page; and a GET answered with a page that
\* ends at the startedDate the page before ended at is the last one, the
\* call raising ApiChangedException.
C39_NeverSameCursorTwiceInARow ==
    pFn = "get_account_transactions" =>
        /\ \A i \in 1..(Len(pOut.sent) - 1) : pOut.sent[i + 1] # pOut.sent[i]
        /\ Len(pOut.sent) <= Len(pIn.pages) + 1
        /\ \A k \in 2..Len(pIn.pages) :
               (Len(pOut.sent) >= k /\ LastStarted(pIn.pages[k]) = LastStarted(pIn.pages[k - 1]))
                   => pOut.exc = "ApiChangedException" /\ pOut.why = "loop" /\ Len(pOut.sent) = k

\* the transactions of the first n pages, in response order
RECURSIVE Flat(_, _)
Flat(pages, n) == IF n = 0 THEN <<>> ELSE Flat(pages, n - 1) \o pages[n]
\* where the list has its first transaction with that leg id (0: nowhere)
FirstIdx(l, id) ==
    IF \E i \in 1..Len(l) : l[i].legId = id
    THEN CHOOSE i \in 1..Len(l) : l[i].legId = id /\ \A j \in 1..(i - 1) : l[j].legId # id
    ELSE 0
\* the page that holds the i-th transaction of the response
PageOf(pages, i) == CHOOSE n \in 1..Len(pages) : Len(Flat(pages, n - 1)) < i /\ i <= Len(Flat(pages, n))

\* what C40 expects of a call whose leg ids differ and whose pagination
\* guard did not fire: the slice, the number of GETs, or RuntimeError
Slice(pages, from_legid, to_legid) ==
    LET F == Flat(pages, Len(pages))
        ti == IF to_legid = None THEN 0 ELSE FirstIdx(F, to_legid)
        fi == IF from_legid = None THEN Len(F) + 1 ELSE FirstIdx(F, from_legid)
    IN  IF (to_legid # None /\ ti = 0) \/ fi = 0 \/ fi < ti
        THEN [exc |-> "RuntimeError", list |-> <<>>, gets |-> 0]
        ELSE [exc |-> "", list |-> SubSeq(F, ti + 1, fi - 1),
              gets |-> IF from_legid = None THEN Len(pages) + 1 ELSE PageOf(pages, fi)]

\* C40: with from_legid and/or to_legid given, different from each other,
\* get_account_transactions returns exactly the transactions of the
\* response after the one with to_legid (from the start without to_legid)
\* and before the one with from_legid, and sends no GET after the page
\* that holds from_legid; it raises RuntimeError when from_legid comes
\* before to_legid or a given leg id is in no page. (A call the pagination
\* guard ended is left aside; a duplicate legId in the slice makes the call
\* raise instead of returning.)
C40_SliceBetweenLegIds ==
    (/\ pFn = "get_account_transactions"
     /\ pIn.from_legid # None \/ pIn.to_legid # None
     /\ pIn.from_legid # pIn.to_legid
     /\ pOut.why # "loop") =>
        LET e == Slice(pIn.pages, pIn.from_legid, pIn.to_legid)
        IN  /\ e.exc = "RuntimeError" <=> pOut.exc = "RuntimeError"
            /\ pOut.exc = "" => pOut.list = e.list
            /\ e.exc = "" => Len(pOut.sent) = e.gets /\ pOut.list = e.list
====
